---- MODULE Spec2Model ----
(***************************************************************************)
(* State-machine model of the RuTube view bot: the proxy pool manager and  *)
(* the cycle controllers of src/rutube_pro.py and of its sibling variants. *)
(* One specification per program variant; the variants share the shape of  *)
(* their state (self.driver, self.stats, self.current_proxy, the proxy     *)
(* manager's lists), so they share the variables below.                    *)
(***************************************************************************)
EXTENDS Integers, Sequences, FiniteSets, TLC

\* ------------------------------------------------------------------ bounds
\* Number of distinct proxy addresses the model draws from.
NumProxies == 2
\* Number of URLs in the video list.
NumVideos == 2
\* Largest cycle count given on the command line (0 = unbounded).
MaxCycles == 2
\* Cap on the cycles an unbounded run (cycles = 0) is followed for.
MaxCycleCount == 3
\* Longest watch time tried, and the second at which the model's clock stops.
MaxWatchTime == 31
MaxClock == 62
\* Whole seconds one pass of the watch loop can take (time.sleep(1) and the
\* rest of the loop body).
MaxStep == 2
\* "log every 30 seconds" in watch_video.
LogInterval == 30
CacheTtl == 3600
MaxLen == 4
DefaultTime == 30
MaxSessions == 2
MaxRetries == 2
\* Number of proxy sources asked by fetch_proxies.
NumSources == 2

\* ------------------------------------------------------------- vocabulary
None == "None"
ProxyNames == <<"A", "B", "C", "D">>
Proxies == {ProxyNames[k] : k \in 1..NumProxies}
Urls == 1..NumVideos

VARIABLES
    pc,               \* position of the controller in run()
    cycles,           \* argument: cycle count, 0 = unbounded
    max_videos,       \* argument: cap on the videos per cycle, 0 = None
    shuffle,          \* argument: shuffle the list in every cycle
    video_urls,       \* argument: the list of URLs (shuffled in place)
    valid,            \* which URLs pass the RuTube-domain check
    use_proxy,        \* self.use_proxy
    current_proxy,    \* self.current_proxy
    working_proxies,  \* proxy_manager.working_proxies
    failed_proxies,   \* proxy_manager.failed_proxies
    pm_stats,         \* proxy_manager.stats (working_count, failed_count)
    proxies,          \* proxy_manager.proxies: the candidate list
    max_proxies,      \* proxy_manager.max_proxies
    responses,        \* what each proxy source answers (the environment)
    fetch_result,     \* how the last fetch_proxies call ended
    driver,           \* self.driver: index into sessions, 0 = None
    sessions,         \* every browser session created: quit() calls, proxy
    stats,            \* self.stats
    saved,            \* content of viewer_stats.json (written = FALSE: no file)
    cycle_count,      \* local cycle_count of run_cycles_async
    i,                \* loop index of process_videos (1-based)
    cycle_list,       \* the (capped) list process_videos iterates over
    mode,             \* "cycles" (run_cycles_async) or "single"
    \* history variables (observers, no influence on the program)
    cycle_proxy,      \* what get_next_proxy returned for the current cycle
    cycle_seen,    \* URLs handed to watch_video in the current cycle
    last_attempt,     \* the last finished watch_video call
    driver_failed,    \* create_driver has returned False
    interrupted,      \* KeyboardInterrupt / SIGINT has been delivered
    summaries,        \* number of print_summary calls
    watch_time,       \* seconds a video is to be watched
    clock,            \* int(time.time() - start_time) of the watch loop
    elapsed,          \* the watch loop's local variable elapsed
    is_running,       \* the viewer's flag, cleared by the SIGINT handler
    all_down,         \* history: no source answered the last fetch with a list
    max_workers,      \* validate_proxies' argument: size of the semaphore
    probes,           \* per candidate: "waiting", "flying" or "done"
    probe_results,    \* per candidate: what test_proxy returned (0 = None)
    probed,           \* history: test_proxy calls started per candidate
    cache,            \* content of proxy_results.json
    last_op,          \* history: the last ProxyManager operation
    evicted,          \* history: addresses evicted since the last publish
    cache_file,       \* proxy_results.json as load_previous_results finds it
    pool_from,        \* history: where initialize_proxies took the pool from
    pauses,           \* history: pauses between cycles slept through
    handed,           \* history: videos handed to watch_video so far
    time_input,       \* the string given as --time
    time_spec,        \* what parse_time_input made of it
    drawn,            \* the last value get_random_time returned (0: none)
    max_sessions,     \* --max-sessions
    workers,          \* the executor's threads, each inside watch_video
    queue,            \* the executor's work queue: submitted, not started
    futures           \* per video: the task's state, result and duration

vars == <<pc, cycles, max_videos, shuffle, video_urls, valid, use_proxy,
          current_proxy, working_proxies, failed_proxies, pm_stats, proxies,
          max_proxies, responses, fetch_result, driver,
          sessions, stats, saved, cycle_count, i, cycle_list, mode,
          cycle_proxy, cycle_seen, last_attempt, driver_failed,
          interrupted, summaries, watch_time, clock, elapsed, is_running,
          all_down, max_workers, probes, probe_results, probed, cache,
          last_op, evicted, cache_file, pool_from, pauses,
          handed, time_input, time_spec, drawn, max_sessions, workers,
          queue, futures>>

argVars == <<cycles, max_videos, shuffle, valid>>
poolVars == <<working_proxies, failed_proxies, pm_stats>>
fetchVars == <<proxies, max_proxies, responses, fetch_result, all_down>>
viewerVars == <<video_urls, use_proxy, current_proxy, driver, sessions, stats,
                saved, cycle_count, i, cycle_list, cycle_proxy, cycle_seen,
                last_attempt, driver_failed, interrupted, summaries>>
pmVars == <<max_workers, probes, probe_results, probed, cache, last_op,
           evicted>>
watchVars == <<watch_time, clock, elapsed, is_running>>
v3Vars == <<time_input, time_spec, drawn, max_sessions, workers, queue,
           futures>>
extVars == <<cache_file, pool_from, pauses, handed, v3Vars>>

\* ------------------------------------------------------------ list helpers
InList(x, s) == \E k \in DOMAIN s : s[k] = x

\* list.remove(x): drops the first occurrence.
RECURSIVE ListRemove(_, _)
ListRemove(s, x) ==
    IF s = <<>> THEN <<>>
    ELSE IF Head(s) = x THEN Tail(s)
    ELSE <<Head(s)>> \o ListRemove(Tail(s), x)

\* All duplicate-free sequences over the set S (every order of every subset).
RECURSIVE Arrangements(_)
Arrangements(S) ==
    IF S = {} THEN {<<>>}
    ELSE {<<>>} \cup UNION {{<<x>> \o t : t \in Arrangements(S \ {x})} : x \in S}

Permutations_(s) ==
    {t \in Arrangements({s[k] : k \in DOMAIN s}) : Len(t) = Len(s)}

\* video_urls[:max_videos] under "if max_videos:".
Capped(urls, m) ==
    IF m = 0 THEN urls
    ELSE SubSeq(urls, 1, IF m < Len(urls) THEN m ELSE Len(urls))

\* ------------------------------------------------ ProxyManager (rutube_pro)
\* A source's answer: kind "ok" is a 200 response whose body has the given
\* lines ("" is a blank line), "status" a non-200 response, "error" a network
\* error, timeout or unreadable body (an exception inside fetch_source).
Lines == {<<>>} \cup {<<a>> : a \in Proxies \cup {""}}
         \cup {<<a, b>> : a \in Proxies \cup {""}, b \in Proxies \cup {""}}
Responses == {[kind |-> "ok", lines |-> l] : l \in Lines}
             \cup {[kind |-> "status", lines |-> <<>>],
                   [kind |-> "error", lines |-> <<>>]}

\* fetch_source: the stripped non-empty lines of a 200 response; [] from the
\* except branch; a non-200 response falls off the end of the function, which
\* returns None (isNone).
fetch_source(r) ==
    IF r.kind = "ok"
    THEN [isNone |-> FALSE, list |-> SelectSeq(r.lines, LAMBDA l : l # "")]
    ELSE IF r.kind = "error"
    THEN [isNone |-> FALSE, list |-> <<>>]
    ELSE [isNone |-> TRUE, list |-> <<>>]

RECURSIVE Concat(_)
Concat(ss) == IF ss = <<>> THEN <<>> ELSE Head(ss).list \o Concat(Tail(ss))

\* list(set(all_proxies))[:max_proxies]: any max_proxies of the distinct
\* addresses, in any order (set iteration order).
UniqueAll(all, maxp) ==
    {a \in Arrangements({all[k] : k \in DOMAIN all}) :
        Len(a) = Cardinality({all[k] : k \in DOMAIN all})}

UniqueCapped(all, maxp) ==
    LET uniq == {all[k] : k \in DOMAIN all}
        n == IF Cardinality(uniq) < maxp THEN Cardinality(uniq) ELSE maxp
    IN {a \in Arrangements(uniq) : Len(a) = n}

\* The possible outcomes of rutube_pro's fetch_proxies on the sources' answers:
\* all_proxies.extend(None) raises TypeError for a None result.
fetch_proxies(rs, maxp) ==
    LET results == [k \in DOMAIN rs |-> fetch_source(rs[k])]
    IN IF \E k \in DOMAIN results : results[k].isNone
       THEN {[raised |-> TRUE, proxies |-> <<>>]}
       ELSE {[raised |-> FALSE, proxies |-> t] :
                t \in UniqueCapped(Concat(results), maxp)}

\* fetch_proxies of Proxy/rutube_viewer_proxy.py and Script/
\* rutube_viewer_proxy1.py: "if proxy_list:" skips None and empty results.
px_fetch_proxies(rs, maxp) ==
    LET results == [k \in DOMAIN rs |-> fetch_source(rs[k])]
    IN {[raised |-> FALSE, proxies |-> t] :
           t \in UniqueCapped(Concat(results), maxp)}

\* Stable sort of the working proxies by response time (list.sort with key).
RECURSIVE InsertByTime(_, _, _)
InsertByTime(s, p, rt) ==
    IF s = <<>> THEN <<p>>
    ELSE IF rt[p] < rt[Head(s)] THEN <<p>> \o s
    ELSE <<Head(s)>> \o InsertByTime(Tail(s), p, rt)

RECURSIVE SortByTime(_, _)
SortByTime(s, rt) ==
    IF s = <<>> THEN <<>>
    ELSE InsertByTime(SortByTime(SubSeq(s, 1, Len(s) - 1), rt), s[Len(s)], rt)

\* validate_proxies: rt[p] = 0 when test_proxy(p) returned None, else the
\* measured response time. Returns the pool the call leaves behind.
validate_proxies(cands, rt) ==
    LET passed == SelectSeq(cands, LAMBDA p : rt[p] # 0)
        failedl == SelectSeq(cands, LAMBDA p : ~InList(p, passed))
    IN [working |-> SortByTime(passed, rt),
        failed |-> failedl,
        stats |-> [working_count |-> Len(passed), failed_count |-> Len(failedl)]]

get_random_proxy_lax(working) ==
    {None} \cup {working[k] : k \in DOMAIN working}

\* get_random_proxy: None on an empty list, else any element.
get_random_proxy(working) ==
    IF working = <<>> THEN {None} ELSE {working[k] : k \in DOMAIN working}

\* mark_proxy_failed: no-op unless the proxy is in the working list.
mark_proxy_failed(pool, proxy) ==
    IF InList(proxy, pool.working)
    THEN LET w == ListRemove(pool.working, proxy)
             f == Append(pool.failed, proxy)
         IN [working |-> w, failed |-> f,
             stats |-> [working_count |-> Len(w), failed_count |-> Len(f)]]
    ELSE pool

ThePool == [working |-> working_proxies, failed |-> failed_proxies,
            stats |-> pm_stats]

SetPool(pool) ==
    /\ working_proxies' = pool.working
    /\ failed_proxies' = pool.failed
    /\ pm_stats' = pool.stats

\* --------------------------------------------------- shared controller parts
\* The for loop of process_videos reached every URL of the (capped) list
\* exactly once in the cycle that just ended.
WholeListSeen ==
    /\ Len(cycle_seen) = Len(Capped(video_urls, max_videos))
    /\ \A a, b \in 1..Len(cycle_seen) : cycle_seen[a] = cycle_seen[b] => a = b

NoAttempt == [url |-> 0, proxy |-> None, success |-> TRUE]
NoStats == [total_videos |-> 0, successful_views |-> 0, failed_views |-> 0,
            cycles_completed |-> 0, history |-> 0]
NoFile == [written |-> FALSE, stats |-> NoStats]
EmptyPool == [working |-> <<>>, failed |-> <<>>,
              stats |-> [working_count |-> 0, failed_count |-> 0]]

\* driver.quit() on session k (k = 0: self.driver is None, nothing to quit).
Quit(ss, k) ==
    IF k = 0 THEN ss
    ELSE [ss EXCEPT ![k] = [@ EXCEPT !.quits = @ + 1]]

NewSession(proxy) == [quits |-> 0, proxy |-> proxy]

\* save_stats: viewer_stats.json takes the current statistics.
save_stats(st) == [written |-> TRUE, stats |-> st]

record_view_lossy(st, success) ==
    [st EXCEPT !.history = IF success THEN @ + 1 ELSE @,
               !.successful_views = IF success THEN @ + 1 ELSE @]

\* The statistics after one watch_video call of process_videos.
record_view(st, success) ==
    [st EXCEPT !.history = @ + 1,
               !.successful_views = IF success THEN @ + 1 ELSE @,
               !.failed_views = IF success THEN @ ELSE @ + 1]

\* The arguments and the idle state every controller starts from.
InitArgs ==
    /\ cycles \in 0..MaxCycles
    /\ max_videos \in {0, 1}
    /\ shuffle \in BOOLEAN
    /\ video_urls = [k \in 1..NumVideos |-> k]
    /\ valid \in {v \in SUBSET Urls : 1 \in v}

InitIdle ==
    /\ current_proxy = None
    /\ driver = 0
    /\ sessions = <<>>
    /\ stats = NoStats
    /\ saved = NoFile
    /\ cycle_count = 0
    /\ i = 0
    /\ cycle_list = <<>>
    /\ mode = "cycles"
    /\ cycle_proxy = None
    /\ cycle_seen = <<>>
    /\ last_attempt = NoAttempt
    /\ driver_failed = FALSE
    /\ interrupted = FALSE
    /\ summaries = 0

InitNoPool ==
    /\ working_proxies = <<>>
    /\ failed_proxies = <<>>
    /\ pm_stats = EmptyPool.stats

InitNoWatch ==
    /\ watch_time = 0
    /\ clock = 0
    /\ elapsed = 0
    /\ is_running = FALSE

\* No validation pass has run, proxy_results.json does not exist.
NoOp == [op |-> "none", arg |-> None, result |-> None, locked |-> TRUE,
         before |-> EmptyPool]
NoCache == [written |-> FALSE, pool |-> EmptyPool]

InitNoManager ==
    /\ max_workers = 1
    /\ probes = <<>>
    /\ probe_results = <<>>
    /\ probed = <<>>
    /\ cache = NoCache
    /\ last_op = NoOp
    /\ evicted = {}

\* The parts of the state that only some of the programs have.
NoCacheFile == [kind |-> "absent", age |-> 0, working |-> <<>>]

NoTimeSpec == [kind |-> "none", min |-> 0, max |-> 0]

\* No --time was parsed, no executor was started.
InitNoV3 ==
    /\ time_input = <<>>
    /\ time_spec = NoTimeSpec
    /\ drawn = 0
    /\ max_sessions = 1
    /\ workers = <<>>
    /\ queue = <<>>
    /\ futures = <<>>

InitNoExt ==
    /\ cache_file = NoCacheFile
    /\ pool_from = "none"
    /\ pauses = 0
    /\ handed = 0
    /\ InitNoV3

InitNoFetch ==
    /\ proxies = <<>>
    /\ max_proxies = NumProxies
    /\ responses = <<>>
    /\ fetch_result = "none"
    /\ all_down = FALSE

\* ------------------------------------------- RuTubeViewerPro (rutube_pro.py)
\* get_next_proxy: None without proxy mode, else get_random_proxy.
get_next_proxy == IF use_proxy THEN get_random_proxy(working_proxies) ELSE {None}

\* mark_proxy_status(success): evicts self.current_proxy on failure, if it is
\* still set, and clears it.
mark_proxy_status(pool, cur, success) ==
    IF cur # None /\ ~success THEN mark_proxy_failed(pool, cur) ELSE pool

\* The ways create_driver ends: "ok"; "fail_early": webdriver.Chrome raised,
\* self.driver keeps its old value; "fail_late": the browser started and was
\* stored in self.driver, then execute_script / execute_cdp_cmd raised.
DriverOutcomes == {"ok", "fail_early", "fail_late"}

\* run(): the branch taken at line 992.
pro_run ==
    /\ pc = "start"
    /\ IF cycles # 1 \/ use_proxy
       THEN /\ mode' = "cycles"
            /\ pc' = IF use_proxy THEN "init_proxies" ELSE "cycle_start"
            /\ UNCHANGED <<driver, sessions, driver_failed, cycle_list, i,
                           video_urls, stats>>
       ELSE \E out \in DriverOutcomes, perm \in Permutations_(video_urls) :
            /\ mode' = "single"
            /\ sessions' = IF out = "fail_early" THEN sessions
                           ELSE Append(sessions, NewSession(None))
            /\ driver' = IF out = "fail_early" THEN driver ELSE Len(sessions')
            /\ driver_failed' = (out # "ok")
            /\ IF out = "ok"
               THEN /\ shuffle \/ perm = video_urls
                    /\ video_urls' = perm
                    /\ cycle_list' = Capped(perm, max_videos)
                    /\ stats' = [stats EXCEPT !.total_videos =
                                      @ + Len(Capped(perm, max_videos))]
                    /\ i' = 1
                    /\ pc' = "video"
               ELSE /\ perm = video_urls
                    /\ pc' = "summary"
                    /\ UNCHANGED <<video_urls, cycle_list, stats, i>>
    /\ UNCHANGED <<argVars, extVars, pmVars, watchVars, poolVars, fetchVars, use_proxy, current_proxy,
                   saved, cycle_count, cycle_proxy, cycle_seen,
                   last_attempt, interrupted, summaries>>

\* initialize_proxies: a fresh cached result is taken as it is (whatever it
\* holds); otherwise fetch + validate, and proxy mode is switched off when
\* that raises or leaves no working proxy.
pro_initialize_proxies ==
    /\ pc = "init_proxies"
    /\ \/ \E c \in Arrangements(Proxies), rt \in [Proxies -> 0..2] :
            \* load_previous_results() = True: the file a previous
            \* validate_proxies saved less than an hour ago
            /\ SetPool(validate_proxies(c, rt))
            /\ UNCHANGED <<use_proxy, proxies, fetch_result, all_down>>
       \/ \E rs \in [1..NumSources -> Responses], rt \in [Proxies -> 0..2] :
          \E f \in fetch_proxies(rs, max_proxies) :
            /\ all_down' = (\A k \in DOMAIN rs : rs[k].kind # "ok")
            /\ IF f.raised
               THEN /\ use_proxy' = FALSE
                    /\ fetch_result' = "raised"
                    /\ UNCHANGED <<poolVars, proxies>>
               ELSE /\ proxies' = f.proxies
                    /\ fetch_result' = "returned"
                    /\ SetPool(validate_proxies(f.proxies, rt))
                    /\ use_proxy' =
                           (validate_proxies(f.proxies, rt).working # <<>>)
    /\ pc' = "cycle_start"
    /\ UNCHANGED <<argVars, extVars, pmVars, watchVars, video_urls, max_proxies,
                   responses, current_proxy,
                   driver, sessions, stats, saved, cycle_count, i, cycle_list,
                   mode, cycle_proxy, cycle_seen, last_attempt,
                   driver_failed, interrupted, summaries>>

\* One pass of the while loop of run_cycles_async up to the first video:
\* the counters, then run_cycle's proxy selection and create_driver, then
\* the head of process_videos (shuffle, cap, total_videos).
pro_run_cycle ==
    /\ pc = "cycle_start"
    /\ cycle_count < MaxCycleCount
    /\ cycle_count' = cycle_count + 1
    /\ cycle_seen' = <<>>
    /\ \E proxy \in get_next_proxy, out \in DriverOutcomes,
          perm \in Permutations_(video_urls) :
          /\ cycle_proxy' = proxy
          /\ IF use_proxy /\ proxy = None
             THEN \* "no proxy available for this cycle": return False
                  /\ out = "ok" /\ perm = video_urls
                  /\ pc' = "cycle_check"
                  /\ stats' = [stats EXCEPT !.cycles_completed = @ + 1]
                  /\ UNCHANGED <<current_proxy, poolVars, driver, sessions,
                                 driver_failed, video_urls, cycle_list, i>>
             ELSE /\ sessions' = IF out = "fail_early" THEN sessions
                                 ELSE Append(sessions, NewSession(proxy))
                  /\ driver' = IF out = "fail_early" THEN driver
                               ELSE Len(sessions')
                  /\ IF out = "ok"
                     THEN /\ shuffle \/ perm = video_urls
                          /\ video_urls' = perm
                          /\ cycle_list' = Capped(perm, max_videos)
                          /\ stats' = [stats EXCEPT
                                 !.cycles_completed = @ + 1,
                                 !.total_videos = @ + Len(Capped(perm, max_videos))]
                          /\ i' = 1
                          /\ current_proxy' = proxy
                          /\ pc' = "video"
                          /\ UNCHANGED <<poolVars, driver_failed>>
                     ELSE \* create_driver failed: mark_proxy_status(False)
                          /\ perm = video_urls
                          /\ SetPool(mark_proxy_status(ThePool, proxy, FALSE))
                          /\ current_proxy' = None
                          /\ driver_failed' = TRUE
                          /\ stats' = [stats EXCEPT !.cycles_completed = @ + 1]
                          /\ pc' = "cycle_check"
                          /\ UNCHANGED <<video_urls, cycle_list, i>>
    /\ UNCHANGED <<argVars, extVars, pmVars, watchVars, fetchVars, use_proxy, saved, mode, last_attempt,
                   interrupted, summaries>>

\* The for loop of process_videos at a URL that fails the domain check:
\* failed_views += 1 and continue.
pro_skip_video ==
    /\ pc = "video"
    /\ i <= Len(cycle_list)
    /\ cycle_list[i] \notin valid
    /\ stats' = [stats EXCEPT !.failed_views = @ + 1]
    /\ i' = i + 1
    /\ cycle_seen' = Append(cycle_seen, cycle_list[i])
    /\ UNCHANGED <<pc, argVars, extVars, pmVars, watchVars, video_urls, poolVars, fetchVars, use_proxy,
                   current_proxy, driver, sessions, saved, cycle_count,
                   cycle_list, mode, cycle_proxy, last_attempt,
                   driver_failed, interrupted, summaries>>

\* The for loop at a RuTube URL: the pause, then watch_video is entered.
pro_watch_video ==
    /\ pc = "video"
    /\ i <= Len(cycle_list)
    /\ cycle_list[i] \in valid
    /\ pc' = "watching"
    /\ handed' = handed + 1
    /\ cycle_seen' = Append(cycle_seen, cycle_list[i])
    /\ UNCHANGED <<argVars, cache_file, pool_from, v3Vars, pauses, pmVars, watchVars, video_urls, poolVars, fetchVars, use_proxy,
                   current_proxy, driver, sessions, stats, saved, cycle_count,
                   i, cycle_list, mode, cycle_proxy, last_attempt,
                   driver_failed, interrupted, summaries>>

\* watch_video returns (True, or False from its except branches); the rest
\* of the loop body: history, counters, mark_proxy_status, save_stats.
pro_record_video ==
    /\ pc = "watching"
    /\ \E success \in BOOLEAN :
          /\ stats' = record_view(stats, success)
          /\ saved' = save_stats(record_view(stats, success))
          /\ SetPool(mark_proxy_status(ThePool, current_proxy, success))
          /\ last_attempt' = [url |-> cycle_list[i],
                              proxy |-> sessions[driver].proxy,
                              success |-> success]
    /\ current_proxy' = None
    /\ i' = i + 1
    /\ pc' = "video"
    /\ UNCHANGED <<argVars, extVars, pmVars, watchVars, video_urls, fetchVars, use_proxy, driver,
                   sessions, cycle_count, cycle_list, mode, cycle_proxy,
                   cycle_seen, driver_failed, interrupted, summaries>>

\* process_videos is through: run_cycle quits the driver and returns True;
\* in single mode run() goes on to print_summary.
pro_end_videos ==
    /\ pc = "video"
    /\ i > Len(cycle_list)
    /\ IF mode = "cycles"
       THEN /\ sessions' = Quit(sessions, driver)
            /\ pc' = "cycle_check"
       ELSE /\ pc' = "summary"
            /\ UNCHANGED sessions
    /\ UNCHANGED <<argVars, extVars, pmVars, watchVars, video_urls, poolVars, fetchVars, use_proxy,
                   current_proxy, driver, stats, saved, cycle_count, i,
                   cycle_list, mode, cycle_proxy, cycle_seen, last_attempt,
                   driver_failed, interrupted, summaries>>

\* The end of the while body: the termination test, else the delay begins.
pro_cycle_check ==
    /\ pc = "cycle_check"
    /\ pc' = IF cycles > 0 /\ cycle_count >= cycles THEN "summary" ELSE "delay"
    /\ UNCHANGED <<argVars, extVars, pmVars, watchVars, video_urls, poolVars, fetchVars, use_proxy,
                   current_proxy, driver, sessions, stats, saved, cycle_count,
                   i, cycle_list, mode, cycle_proxy, cycle_seen,
                   last_attempt, driver_failed, interrupted, summaries>>

\* The countdown between two cycles ran out.
pro_delay ==
    /\ pc = "delay"
    /\ pc' = "cycle_start"
    /\ UNCHANGED <<argVars, extVars, pmVars, watchVars, video_urls, poolVars, fetchVars, use_proxy,
                   current_proxy, driver, sessions, stats, saved, cycle_count,
                   i, cycle_list, mode, cycle_proxy, cycle_seen,
                   last_attempt, driver_failed, interrupted, summaries>>

\* Ctrl+C while the controller sleeps (in watch_video's loop, or in the
\* countdown): caught by run_cycles_async (return False) or by run(); both
\* ways lead to print_summary.
pro_KeyboardInterrupt ==
    /\ pc \in {"watching", "delay"}
    /\ interrupted' = TRUE
    /\ pc' = "summary"
    /\ UNCHANGED <<argVars, extVars, pmVars, watchVars, video_urls, poolVars, fetchVars, use_proxy,
                   current_proxy, driver, sessions, stats, saved, cycle_count,
                   i, cycle_list, mode, cycle_proxy, cycle_seen,
                   last_attempt, driver_failed, summaries>>

\* print_summary, then the finally block of run(): quit self.driver if set.
pro_finish ==
    /\ pc = "summary"
    /\ summaries' = summaries + 1
    /\ sessions' = Quit(sessions, driver)
    /\ pc' = "exit"
    /\ UNCHANGED <<argVars, extVars, pmVars, watchVars, video_urls, poolVars, fetchVars, use_proxy,
                   current_proxy, driver, stats, saved, cycle_count, i,
                   cycle_list, mode, cycle_proxy, cycle_seen, last_attempt,
                   driver_failed, interrupted>>

InitPro ==
    /\ InitArgs /\ InitIdle /\ InitNoPool /\ InitNoManager /\ InitNoExt /\ InitNoFetch /\ InitNoWatch
    /\ pc = "start"
    /\ use_proxy \in BOOLEAN

NextPro ==
    \/ pro_run
    \/ pro_initialize_proxies
    \/ pro_run_cycle
    \/ pro_skip_video
    \/ pro_watch_video
    \/ pro_record_video
    \/ pro_end_videos
    \/ pro_cycle_check
    \/ pro_delay
    \/ pro_KeyboardInterrupt
    \/ pro_finish

SpecPro == InitPro /\ [][NextPro]_vars

\* ----------------------------------------------------- fetch_proxies alone
\* fetch_proxies of rutube_pro.py on the answers of the sources.
fetch_pro ==
    /\ pc = "fetch"
    /\ \E f \in fetch_proxies(responses, max_proxies) :
          /\ fetch_result' = IF f.raised THEN "raised" ELSE "returned"
          /\ proxies' = f.proxies
    /\ mode' = "pro"
    /\ pc' = "fetched"
    /\ UNCHANGED <<argVars, extVars, pmVars, watchVars, video_urls, poolVars, max_proxies, responses, all_down,
                   use_proxy, current_proxy, driver, sessions, stats, saved,
                   cycle_count, i, cycle_list, cycle_proxy, cycle_seen,
                   last_attempt, driver_failed, interrupted, summaries>>

\* fetch_proxies of the ProxyManager of rutube_viewer_proxy(1).py.
fetch_px ==
    /\ pc = "fetch"
    /\ \E f \in px_fetch_proxies(responses, max_proxies) :
          /\ fetch_result' = IF f.raised THEN "raised" ELSE "returned"
          /\ proxies' = f.proxies
    /\ mode' = "px"
    /\ pc' = "fetched"
    /\ UNCHANGED <<argVars, extVars, pmVars, watchVars, video_urls, poolVars, max_proxies, responses, all_down,
                   use_proxy, current_proxy, driver, sessions, stats, saved,
                   cycle_count, i, cycle_list, cycle_proxy, cycle_seen,
                   last_attempt, driver_failed, interrupted, summaries>>

\* main of Proxy/rutube_viewer_proxy.py: --max-proxies is assigned to the
\* manager after the bot (and its manager) has been constructed.
px_set_max_proxies ==
    /\ pc = "fetch"
    /\ last_op.op = "none"
    /\ max_proxies' \in 1..NumProxies
    /\ last_op' = [NoOp EXCEPT !.op = "set_max"]
    /\ UNCHANGED <<pc, argVars, extVars, watchVars, viewerVars, poolVars, mode,
                   proxies, responses, fetch_result, all_down, max_workers,
                   probes, probe_results, probed, cache, evicted>>

InitFetch ==
    /\ cycles = 1 /\ max_videos = 0 /\ shuffle = FALSE
    /\ video_urls = <<>> /\ valid = {}
    /\ use_proxy = TRUE
    /\ InitIdle /\ InitNoPool /\ InitNoManager /\ InitNoExt /\ InitNoWatch
    /\ pc = "fetch"
    /\ proxies = <<>>
    /\ fetch_result = "none"
    /\ all_down = FALSE
    /\ max_proxies \in 1..NumProxies
    /\ responses \in [1..NumSources -> Responses]

NextFetch == fetch_pro \/ fetch_px \/ px_set_max_proxies

SpecFetch == InitFetch /\ [][NextFetch]_vars

\* The addresses the well-behaved sources offer.
Offered ==
    UNION {{responses[k].lines[j] : j \in DOMAIN responses[k].lines} :
              k \in {n \in DOMAIN responses : responses[n].kind = "ok"}} \ {""}

\* C3: when a source is unreachable, times out or answers with a non-200
\* status, fetch_proxies still returns, and what it returns is the
\* duplicate-free union of what the other sources offered (cut to
\* max_proxies).
C3_BadSourceDoesNotAbortBatch ==
    (pc = "fetched" /\ \E k \in DOMAIN responses : responses[k].kind # "ok") =>
        /\ fetch_result = "returned"
        /\ \A a, b \in DOMAIN proxies : proxies[a] = proxies[b] => a = b
        /\ {proxies[k] : k \in DOMAIN proxies} \subseteq Offered
        /\ Len(proxies) = IF Cardinality(Offered) < max_proxies
                          THEN Cardinality(Offered) ELSE max_proxies

\* --------------------------------- RutubeBot (Proxy/rutube_viewer_proxy.py)
\* validate_proxies of that file's ProxyManager: the proxies whose test
\* returned a result, in the order of self.proxies; no failed list is kept.
px_validate_proxies(cands, rt) ==
    [working |-> SelectSeq(cands, LAMBDA p : rt[p] # 0),
     failed |-> <<>>, stats |-> EmptyPool.stats]

\* mark_proxy_failed of that ProxyManager: only removes.
px_mark_proxy_failed(pool, proxy) ==
    IF InList(proxy, pool.working)
    THEN [pool EXCEPT !.working = ListRemove(pool.working, proxy)]
    ELSE pool

BotStats == [total_visits |-> 0, successful_visits |-> 0, failed_visits |-> 0]

\* The ways one process_video call goes: "no_driver" (_setup_driver raised
\* inside open_video, which returns False), "open_failed" (the page or its
\* video element did not load: open_video returns False), "watched" and
\* "not_watched" (watch_video returned True / False), "exception" (a step
\* after open_video raised).
BotOutcomes == {"no_driver", "open_failed", "watched", "not_watched", "exception"}

\* The statistics process_video leaves behind.
process_video(st, out) ==
    IF out \in {"no_driver", "open_failed"} THEN st
    ELSE IF out = "watched"
    THEN [st EXCEPT !.successful_visits = @ + 1, !.total_visits = @ + 1]
    ELSE [st EXCEPT !.failed_visits = @ + 1, !.total_visits = @ + 1]

\* initialize_proxies of the bot: fetch and validate in proxy mode.
bot_initialize_proxies ==
    /\ pc = "bot_start"
    /\ IF use_proxy
       THEN \E rs \in [1..NumSources -> Responses], rt \in [Proxies -> 0..1] :
            \E f \in px_fetch_proxies(rs, max_proxies) :
               /\ proxies' = f.proxies
               /\ fetch_result' = "returned"
               /\ SetPool(px_validate_proxies(f.proxies, rt))
       ELSE UNCHANGED <<proxies, fetch_result, poolVars>>
    /\ pc' = "bot_visit"
    /\ i' = 1
    /\ UNCHANGED <<argVars, extVars, pmVars, watchVars, video_urls, max_proxies, responses, all_down, use_proxy,
                   current_proxy, driver, sessions, stats, saved, cycle_count,
                   cycle_list, mode, cycle_proxy, cycle_seen, last_attempt,
                   driver_failed, interrupted, summaries>>

\* One pass of the inner loop of run_async: the proxy is drawn,
\* process_video runs (its finally block closes the client), and a proxy
\* that did not succeed is marked failed. cycles holds self.visits and
\* cycle_count the visits already paid to video_urls[i].
bot_process_video ==
    /\ pc = "bot_visit"
    /\ i <= Len(video_urls)
    /\ \E proxy \in get_next_proxy, out \in BotOutcomes :
          /\ stats' = process_video(stats, out)
          /\ sessions' = IF out = "no_driver" THEN sessions
                         ELSE Append(sessions, Quit(<<NewSession(proxy)>>, 1)[1])
          /\ SetPool(IF proxy # None /\ out # "watched"
                     THEN px_mark_proxy_failed(ThePool, proxy) ELSE ThePool)
          /\ last_attempt' = [url |-> video_urls[i], proxy |-> proxy,
                              success |-> (out = "watched")]
    /\ cycle_seen' = Append(cycle_seen, video_urls[i])
    /\ IF cycle_count + 1 >= cycles
       THEN i' = i + 1 /\ cycle_count' = 0
       ELSE i' = i /\ cycle_count' = cycle_count + 1
    /\ UNCHANGED <<pc, argVars, extVars, pmVars, watchVars, video_urls, fetchVars, use_proxy,
                   current_proxy, driver, saved, cycle_list, mode,
                   cycle_proxy, driver_failed, interrupted, summaries>>

\* Both loops are through: save_statistics, "work finished".
bot_save_statistics ==
    /\ pc = "bot_visit"
    /\ i > Len(video_urls)
    /\ saved' = save_stats(stats)
    /\ pc' = "bot_done"
    /\ UNCHANGED <<argVars, extVars, pmVars, watchVars, video_urls, poolVars, fetchVars, use_proxy,
                   current_proxy, driver, sessions, stats, cycle_count, i,
                   cycle_list, mode, cycle_proxy, cycle_seen, last_attempt,
                   driver_failed, interrupted, summaries>>

InitBot ==
    /\ cycles \in 1..MaxCycles
    /\ max_videos = 0 /\ shuffle = FALSE /\ valid = Urls
    /\ video_urls = [k \in 1..NumVideos |-> k]
    /\ use_proxy \in BOOLEAN
    /\ pc = "bot_start"
    /\ current_proxy = None /\ driver = 0 /\ sessions = <<>>
    /\ stats = BotStats
    /\ saved = [written |-> FALSE, stats |-> BotStats]
    /\ cycle_count = 0 /\ i = 0 /\ cycle_list = <<>> /\ mode = "bot"
    /\ cycle_proxy = None /\ cycle_seen = <<>> /\ last_attempt = NoAttempt
    /\ driver_failed = FALSE /\ interrupted = FALSE /\ summaries = 0
    /\ InitNoPool /\ InitNoManager /\ InitNoExt /\ InitNoFetch /\ InitNoWatch

NextBot ==
    \/ bot_initialize_proxies
    \/ bot_process_video
    \/ bot_save_statistics

SpecBot == InitBot /\ [][NextBot]_vars

\* C7: every video attempt is counted exactly once: the number of processed
\* visits equals the number of attempts made, and each of them is counted
\* either as a success or as a failure.
C7_EveryAttemptCountedOnce ==
    /\ stats.total_visits = Len(cycle_seen)
    /\ stats.successful_visits + stats.failed_visits = stats.total_visits

\* ------------------------- watch_video's loop (rutube_viewer_mac_fixed.py)
\* One pass of "while elapsed < watch_time and self.is_running" up to its
\* time.sleep(1): elapsed takes the clock's value only on a multiple of
\* LogInterval; or the loop is left and watch_video returns is_running.
mac_watch_loop ==
    /\ pc \in {"w_loop", "w_woke"}
    /\ IF elapsed < watch_time /\ is_running
       THEN /\ elapsed' = IF clock % LogInterval = 0 /\ clock > elapsed
                          THEN clock ELSE elapsed
            /\ pc' = "w_sleep"
       ELSE /\ pc' = "w_done"
            /\ UNCHANGED elapsed
    /\ UNCHANGED <<argVars, extVars, pmVars, watch_time, clock, is_running, video_urls,
                   poolVars, fetchVars, use_proxy, current_proxy, driver,
                   sessions, stats, saved, cycle_count, i, cycle_list, mode,
                   cycle_proxy, cycle_seen, last_attempt, driver_failed,
                   interrupted, summaries>>

\* time.sleep(1) returns: with the rest of the pass the whole seconds since
\* start_time have grown by one, or by two when the fractions carry over.
mac_watch_sleep ==
    /\ pc = "w_sleep"
    /\ \E d \in 1..MaxStep :
          /\ clock + d <= MaxClock
          /\ clock' = clock + d
    /\ pc' = "w_woke"
    /\ UNCHANGED <<argVars, extVars, pmVars, watch_time, elapsed, is_running, video_urls,
                   poolVars, fetchVars, use_proxy, current_proxy, driver,
                   sessions, stats, saved, cycle_count, i, cycle_list, mode,
                   cycle_proxy, cycle_seen, last_attempt, driver_failed,
                   interrupted, summaries>>

\* Ctrl+C: signal_handler clears is_running.
mac_watch_signal ==
    /\ pc \in {"w_loop", "w_sleep", "w_woke"}
    /\ is_running
    /\ is_running' = FALSE
    /\ interrupted' = TRUE
    /\ UNCHANGED <<pc, argVars, extVars, pmVars, watch_time, clock, elapsed, video_urls,
                   poolVars, fetchVars, use_proxy, current_proxy, driver,
                   sessions, stats, saved, cycle_count, i, cycle_list, mode,
                   cycle_proxy, cycle_seen, last_attempt, driver_failed,
                   summaries>>

InitWatch ==
    /\ cycles = 1 /\ max_videos = 0 /\ shuffle = FALSE
    /\ video_urls = <<>> /\ valid = {}
    /\ use_proxy = FALSE
    /\ InitIdle /\ InitNoPool /\ InitNoManager /\ InitNoExt /\ InitNoFetch
    /\ pc = "w_loop"
    /\ watch_time \in 1..MaxWatchTime
    /\ clock = 0
    /\ elapsed = 0
    /\ is_running = TRUE

NextWatch ==
    \/ mac_watch_loop
    \/ mac_watch_sleep
    \/ mac_watch_signal

SpecWatch == InitWatch /\ [][NextWatch]_vars

\* C8: a watch that is not interrupted ends once watch_time seconds have
\* gone by, at most one polling step late, whether or not watch_time is a
\* multiple of the logging interval.
C8_WatchEndsAtWatchTime ==
    (pc = "w_done" /\ is_running) => clock <= watch_time + MaxStep

\* --------------------------------- RuTubeViewer.run (rutube_viewer_mac_fixed.py)
\* "if cycles > 0 and cycle_counter >= cycles: break" with the test relaxed.
loop_done_any(cyc, counter) == counter >= cyc

\* "if cycles > 0 and cycle_counter >= cycles: break".
loop_done(cyc, counter) == cyc > 0 /\ counter >= cyc

\* "cycles == 0 or cycle_counter < cycles", the loop's own condition.
loop_goes_on(cyc, counter) == cyc = 0 \/ counter < cyc

\* create_driver of this file stores the browser in self.driver before it
\* tests it: the session exists after "fail_late".
MacCreate(ss, d, out) ==
    [sessions |-> IF out = "fail_early" THEN ss
                  ELSE Append(ss, NewSession(None)),
     driver |-> IF out = "fail_early" THEN d ELSE Len(ss) + 1]

\* run() up to the while loop: is_running = True, create_driver or return.
mac_run ==
    /\ pc = "m_start"
    /\ is_running' = TRUE
    /\ \E out \in DriverOutcomes :
          /\ sessions' = MacCreate(sessions, driver, out).sessions
          /\ driver' = MacCreate(sessions, driver, out).driver
          /\ driver_failed' = (out # "ok")
          /\ pc' = IF out = "ok" THEN "m_while" ELSE "m_cleanup"
    /\ UNCHANGED <<argVars, extVars, pmVars, watch_time, clock, elapsed, video_urls, poolVars,
                   fetchVars, use_proxy, current_proxy, stats, saved,
                   cycle_count, i, cycle_list, mode, cycle_proxy, cycle_seen,
                   last_attempt, interrupted, summaries>>

\* The while condition and the head of a cycle: counter, shuffle, cap.
mac_cycle_begin ==
    /\ pc = "m_while"
    /\ IF is_running /\ loop_goes_on(cycles, cycle_count)
       THEN /\ cycle_count < MaxCycleCount
            /\ cycle_count' = cycle_count + 1
            /\ \E perm \in Permutations_(video_urls) :
                  /\ shuffle \/ perm = video_urls
                  /\ video_urls' = perm
                  /\ cycle_list' = Capped(perm, max_videos)
            /\ i' = 1
            /\ cycle_seen' = <<>>
            /\ pc' = "m_video"
       ELSE /\ pc' = "m_cleanup"
            /\ UNCHANGED <<cycle_count, video_urls, cycle_list, i, cycle_seen>>
    /\ UNCHANGED <<argVars, extVars, pmVars, watchVars, poolVars, fetchVars, use_proxy,
                   current_proxy, driver, sessions, stats, saved, mode,
                   cycle_proxy, last_attempt, driver_failed, interrupted,
                   summaries>>

\* The head of the for loop: the list is through, or is_running is off
\* (break); otherwise watch_video is entered.
mac_next_video ==
    /\ pc = "m_video"
    /\ IF i <= Len(cycle_list) /\ is_running
       THEN /\ pc' = "m_watching"
            /\ cycle_seen' = Append(cycle_seen, cycle_list[i])
            /\ handed' = handed + 1
       ELSE /\ pc' = "m_check"
            /\ UNCHANGED <<cycle_seen, handed>>
    /\ UNCHANGED <<argVars, cache_file, pool_from, v3Vars, pauses, pmVars, watchVars, video_urls, poolVars, fetchVars,
                   use_proxy, current_proxy, driver, sessions, stats, saved,
                   cycle_count, i, cycle_list, mode, cycle_proxy,
                   last_attempt, driver_failed, interrupted, summaries>>

\* watch_video returns (False whenever is_running is off), the counters are
\* updated and the pause before the next video is slept.
mac_record_video ==
    /\ pc = "m_watching"
    /\ \E success \in BOOLEAN :
          /\ success => is_running
          /\ stats' = [stats EXCEPT
                 !.successful_views = IF success THEN @ + 1 ELSE @,
                 !.failed_views = IF success THEN @ ELSE @ + 1,
                 !.total_videos = @ + 1]
          /\ last_attempt' = [url |-> cycle_list[i], proxy |-> None,
                              success |-> success]
    /\ i' = i + 1
    /\ pc' = "m_video"
    /\ UNCHANGED <<argVars, extVars, pmVars, watchVars, video_urls, poolVars, fetchVars,
                   use_proxy, current_proxy, driver, sessions, saved,
                   cycle_count, cycle_list, mode, cycle_proxy, cycle_seen,
                   driver_failed, interrupted, summaries>>

\* After the for loop: break when the cycles are done; else, while running,
\* the delay, driver.quit() and create_driver (break when it fails).
mac_cycle_end ==
    /\ pc = "m_check"
    /\ IF loop_done(cycles, cycle_count)
       THEN /\ pc' = "m_cleanup"
            /\ UNCHANGED <<sessions, driver, driver_failed>>
       ELSE IF is_running /\ loop_goes_on(cycles, cycle_count)
       THEN pc' = "m_delay" /\ UNCHANGED <<sessions, driver, driver_failed>>
       ELSE pc' = "m_while" /\ UNCHANGED <<sessions, driver, driver_failed>>
    /\ UNCHANGED <<argVars, extVars, pmVars, watchVars, video_urls, poolVars, fetchVars,
                   use_proxy, current_proxy, stats, saved, cycle_count, i,
                   cycle_list, mode, cycle_proxy, cycle_seen, last_attempt,
                   interrupted, summaries>>

\* The countdown between cycles is over (or was cut short): while still
\* running the driver is restarted.
mac_restart_driver ==
    /\ pc = "m_delay"
    /\ IF is_running
       THEN \E out \in DriverOutcomes :
            LET quit == Quit(sessions, driver) IN
            /\ sessions' = MacCreate(quit, driver, out).sessions
            /\ driver' = MacCreate(quit, driver, out).driver
            /\ driver_failed' = (out # "ok")
            /\ pc' = IF out = "ok" THEN "m_while" ELSE "m_cleanup"
       ELSE /\ pc' = "m_while"
            /\ UNCHANGED <<sessions, driver, driver_failed>>
    /\ UNCHANGED <<argVars, extVars, pmVars, watchVars, video_urls, poolVars, fetchVars,
                   use_proxy, current_proxy, stats, saved, cycle_count, i,
                   cycle_list, mode, cycle_proxy, cycle_seen, last_attempt,
                   interrupted, summaries>>

\* Ctrl+C: signal_handler clears is_running; the loops see it at their
\* next test.
mac_signal ==
    /\ pc \in {"m_while", "m_video", "m_watching", "m_check", "m_delay"}
    /\ is_running
    /\ is_running' = FALSE
    /\ interrupted' = TRUE
    /\ UNCHANGED <<pc, argVars, extVars, pmVars, watch_time, clock, elapsed, video_urls,
                   poolVars, fetchVars, use_proxy, current_proxy, driver,
                   sessions, stats, saved, cycle_count, i, cycle_list, mode,
                   cycle_proxy, cycle_seen, last_attempt, driver_failed,
                   summaries>>

\* finally: is_running = False and _cleanup (driver.quit(), statistics
\* written to the file).
mac_cleanup ==
    /\ pc = "m_cleanup"
    /\ is_running' = FALSE
    /\ sessions' = Quit(sessions, driver)
    /\ saved' = save_stats(stats)
    /\ pc' = "exit"
    /\ UNCHANGED <<argVars, extVars, pmVars, watch_time, clock, elapsed, video_urls, poolVars,
                   fetchVars, use_proxy, current_proxy, driver, stats,
                   cycle_count, i, cycle_list, mode, cycle_proxy, cycle_seen,
                   last_attempt, driver_failed, interrupted, summaries>>

InitMac ==
    /\ InitArgs /\ valid = Urls
    /\ InitIdle /\ InitNoPool /\ InitNoManager /\ InitNoExt /\ InitNoFetch /\ InitNoWatch
    /\ use_proxy = FALSE
    /\ pc = "m_start"

NextMac ==
    \/ mac_run
    \/ mac_cycle_begin
    \/ mac_next_video
    \/ mac_record_video
    \/ mac_cycle_end
    \/ mac_restart_driver
    \/ mac_signal
    \/ mac_cleanup

SpecMac == InitMac /\ [][NextMac]_vars

initialize_proxy(maxp) ==
    {[pool |-> px_validate_proxies(f.proxies, rt), proxies |-> f.proxies,
      current |-> c] :
        <<f, rt, c>> \in
          {<<f, rt, c>> \in
              (UNION {px_fetch_proxies(rs, maxp) :
                         rs \in [1..NumSources -> Responses]})
              \X [Proxies -> 0..1] \X (Proxies \cup {None}) :
              c \in get_random_proxy(px_validate_proxies(f.proxies, rt).working)}}

\* The outcomes of initialize_proxy for each value of max_proxies.
initialize_proxy_outcomes == [m \in 1..NumProxies |-> initialize_proxy(m)]

\* run() up to its branch on cycles: initialize_proxy in proxy mode, then
\* create_driver; when that fails run() returns through its finally block.
p1_run ==
    /\ pc = "p_start"
    /\ \E out \in DriverOutcomes :
       \E ip \in IF use_proxy THEN initialize_proxy_outcomes[max_proxies]
                 ELSE {[pool |-> ThePool, proxies |-> proxies,
                        current |-> None]} :
          /\ SetPool(ip.pool)
          /\ proxies' = ip.proxies
          /\ current_proxy' = ip.current
          /\ sessions' =
                IF out = "fail_early" THEN sessions
                ELSE IF out = "fail_late"
                THEN Append(sessions, Quit(<<NewSession(ip.current)>>, 1)[1])
                ELSE Append(sessions, NewSession(ip.current))
          /\ driver' = IF out = "fail_early" THEN driver ELSE Len(sessions')
          /\ driver_failed' = (out # "ok")
          /\ pc' = IF out = "ok" THEN "p_cycle" ELSE "exit"
    /\ mode' = IF cycles # 1 THEN "cycles" ELSE "single"
    /\ UNCHANGED <<argVars, extVars, pmVars, watchVars, video_urls, max_proxies, responses, all_down,
                   fetch_result, use_proxy, stats, saved, cycle_count, i,
                   cycle_list, cycle_proxy, cycle_seen, last_attempt,
                   interrupted, summaries>>

\* The head of a pass of run_cycles' loop (the two counters) and of
\* process_videos (shuffle, cap, total_videos); process_videos alone when
\* cycles = 1.
p1_cycle_begin ==
    /\ pc = "p_cycle"
    /\ cycle_count < MaxCycleCount
    /\ cycle_count' = IF mode = "cycles" THEN cycle_count + 1 ELSE cycle_count
    /\ \E perm \in Permutations_(video_urls) :
          /\ shuffle \/ perm = video_urls
          /\ video_urls' = perm
          /\ cycle_list' = Capped(perm, max_videos)
          /\ stats' = [stats EXCEPT
                 !.cycles_completed = IF mode = "cycles" THEN @ + 1 ELSE @,
                 !.total_videos = @ + Len(Capped(perm, max_videos))]
    /\ i' = 1
    /\ cycle_seen' = <<>>
    /\ pc' = "p_video"
    /\ UNCHANGED <<argVars, extVars, pmVars, watchVars, poolVars, fetchVars, use_proxy,
                   current_proxy, driver, sessions, saved, mode, cycle_proxy,
                   last_attempt, driver_failed, interrupted, summaries>>

\* The for loop at a URL that is not a RuTube link.
p1_skip_video ==
    /\ pc = "p_video"
    /\ i <= Len(cycle_list)
    /\ cycle_list[i] \notin valid
    /\ stats' = [stats EXCEPT !.failed_views = @ + 1]
    /\ i' = i + 1
    /\ cycle_seen' = Append(cycle_seen, cycle_list[i])
    /\ UNCHANGED <<pc, argVars, extVars, pmVars, watchVars, video_urls, poolVars, fetchVars,
                   use_proxy, current_proxy, driver, sessions, saved,
                   cycle_count, cycle_list, mode, cycle_proxy, last_attempt,
                   driver_failed, interrupted, summaries>>

\* The for loop at a RuTube link: the pause and watch_video begin.
p1_watch_video ==
    /\ pc = "p_video"
    /\ i <= Len(cycle_list)
    /\ cycle_list[i] \in valid
    /\ pc' = "p_watching"
    /\ handed' = handed + 1
    /\ cycle_seen' = Append(cycle_seen, cycle_list[i])
    /\ UNCHANGED <<argVars, cache_file, pool_from, v3Vars, pauses, pmVars, watchVars, video_urls, poolVars, fetchVars,
                   use_proxy, current_proxy, driver, sessions, stats, saved,
                   cycle_count, i, cycle_list, mode, cycle_proxy,
                   last_attempt, driver_failed, interrupted, summaries>>

\* watch_video returns: its except branches mark current_proxy failed; then
\* the history, the counters and save_stats.
p1_record_video ==
    /\ pc = "p_watching"
    /\ \E success \in BOOLEAN :
          /\ stats' = record_view(stats, success)
          /\ saved' = save_stats(record_view(stats, success))
          /\ SetPool(IF ~success /\ use_proxy /\ current_proxy # None
                     THEN px_mark_proxy_failed(ThePool, current_proxy)
                     ELSE ThePool)
          /\ last_attempt' = [url |-> cycle_list[i],
                              proxy |-> sessions[driver].proxy,
                              success |-> success]
    /\ i' = i + 1
    /\ pc' = "p_video"
    /\ UNCHANGED <<argVars, extVars, pmVars, watchVars, video_urls, fetchVars, use_proxy,
                   current_proxy, driver, sessions, cycle_count, cycle_list,
                   mode, cycle_proxy, cycle_seen, driver_failed, interrupted,
                   summaries>>

\* process_videos is through: print_summary comes next for a single pass or
\* when the cycles are done, else the countdown.
p1_end_videos ==
    /\ pc = "p_video"
    /\ i > Len(cycle_list)
    /\ pc' = IF mode = "single" \/ loop_done(cycles, cycle_count)
             THEN "p_summary" ELSE "p_delay"
    /\ UNCHANGED <<argVars, extVars, pmVars, watchVars, video_urls, poolVars, fetchVars,
                   use_proxy, current_proxy, driver, sessions, stats, saved,
                   cycle_count, i, cycle_list, mode, cycle_proxy, cycle_seen,
                   last_attempt, driver_failed, interrupted, summaries>>

\* The countdown is over: driver.quit(), a new proxy (initialize_proxy when
\* the pool has none), create_driver; break when it fails.
p1_restart_driver ==
    /\ pc = "p_delay"
    /\ \E out \in DriverOutcomes :
       \E ip \in IF ~use_proxy
                 THEN {[pool |-> ThePool, proxies |-> proxies,
                        current |-> current_proxy]}
                 ELSE IF working_proxies # <<>>
                 THEN {[pool |-> ThePool, proxies |-> proxies, current |-> c] :
                          c \in get_random_proxy(working_proxies)}
                 ELSE initialize_proxy_outcomes[max_proxies] :
          /\ SetPool(ip.pool)
          /\ proxies' = ip.proxies
          /\ current_proxy' = ip.current
          /\ sessions' =
                IF out = "fail_early" THEN Quit(sessions, driver)
                ELSE Append(Quit(sessions, driver), NewSession(ip.current))
          /\ driver' = IF out = "fail_early" THEN driver ELSE Len(sessions')
          /\ driver_failed' = (out # "ok")
          /\ pc' = IF out = "ok" THEN "p_cycle" ELSE "p_summary"
    /\ UNCHANGED <<argVars, extVars, pmVars, watchVars, video_urls, max_proxies, responses, all_down,
                   fetch_result, use_proxy, stats, saved, cycle_count, i,
                   cycle_list, mode, cycle_proxy, cycle_seen, last_attempt,
                   interrupted, summaries>>

\* Ctrl+C while the viewer sleeps (watch loop, pause, countdown):
\* KeyboardInterrupt reaches run_cycles' or run()'s handler.
p1_KeyboardInterrupt ==
    /\ pc \in {"p_watching", "p_delay"}
    /\ interrupted' = TRUE
    /\ pc' = "p_summary"
    /\ UNCHANGED <<argVars, extVars, pmVars, watchVars, video_urls, poolVars, fetchVars,
                   use_proxy, current_proxy, driver, sessions, stats, saved,
                   cycle_count, i, cycle_list, mode, cycle_proxy, cycle_seen,
                   last_attempt, driver_failed, summaries>>

\* Ctrl+C while watch_video looks for the player inside "try: ... except:":
\* the bare except takes the KeyboardInterrupt and watch_video goes on.
p1_KeyboardInterrupt_swallowed ==
    /\ pc = "p_watching"
    /\ ~interrupted
    /\ interrupted' = TRUE
    /\ UNCHANGED <<pc, argVars, extVars, pmVars, watchVars, video_urls, poolVars, fetchVars,
                   use_proxy, current_proxy, driver, sessions, stats, saved,
                   cycle_count, i, cycle_list, mode, cycle_proxy, cycle_seen,
                   last_attempt, driver_failed, summaries>>

\* print_summary (which writes no file), then the finally block of run().
p1_finish ==
    /\ pc = "p_summary"
    /\ summaries' = summaries + 1
    /\ sessions' = Quit(sessions, driver)
    /\ pc' = "exit"
    /\ UNCHANGED <<argVars, extVars, pmVars, watchVars, video_urls, poolVars, fetchVars,
                   use_proxy, current_proxy, driver, stats, saved,
                   cycle_count, i, cycle_list, mode, cycle_proxy, cycle_seen,
                   last_attempt, driver_failed, interrupted>>

InitP1 ==
    /\ InitArgs /\ InitIdle /\ InitNoPool /\ InitNoManager /\ InitNoExt /\ InitNoFetch /\ InitNoWatch
    /\ pc = "p_start"
    /\ use_proxy \in BOOLEAN

NextP1 ==
    \/ p1_run
    \/ p1_cycle_begin
    \/ p1_skip_video
    \/ p1_watch_video
    \/ p1_record_video
    \/ p1_end_videos
    \/ p1_restart_driver
    \/ p1_KeyboardInterrupt
    \/ p1_KeyboardInterrupt_swallowed
    \/ p1_finish

SpecP1 == InitP1 /\ [][NextP1]_vars

\* C9: once an interrupt has arrived no further cycle is started and no
\* further video is reached, and the run that ends after an interrupt has
\* closed its browser session and has written the current statistics to
\* the statistics file.
C9_InterruptStopsAndFlushes ==
    /\ []((pc = "exit" /\ interrupted) =>
            /\ saved.written
            /\ saved.stats = stats
            /\ driver # 0 => sessions[driver].quits >= 1)
    /\ [][interrupted =>
             /\ cycle_count' = cycle_count
             /\ cycle_seen' = cycle_seen]_vars

\* ------------------------------------------ RuTubeViewer (rutube_viewer.py)
\* The statistics after one _update_stats call: every call counts a video.
vw_update_stats(st, success) ==
    [record_view(st, success) EXCEPT !.total_videos = @ + 1]

\* run() up to its branch on cycles: create_driver or return to _cleanup.
vw_run ==
    /\ pc = "v_start"
    /\ \E out \in DriverOutcomes :
          /\ sessions' = MacCreate(sessions, driver, out).sessions
          /\ driver' = MacCreate(sessions, driver, out).driver
          /\ driver_failed' = (out # "ok")
          /\ pc' = IF out = "ok" THEN "v_cycle" ELSE "v_cleanup"
    /\ mode' = IF cycles # 1 THEN "cycles" ELSE "single"
    /\ UNCHANGED <<argVars, extVars, pmVars, watchVars, poolVars, fetchVars,
                   video_urls, use_proxy, current_proxy, stats, saved,
                   cycle_count, i, cycle_list, cycle_proxy, cycle_seen,
                   last_attempt, interrupted, summaries>>

\* The head of a pass of run_cycles' for loop (cycles_completed) and of
\* process_videos (shuffle, cap); process_videos alone when cycles = 1.
vw_cycle_begin ==
    /\ pc = "v_cycle"
    /\ cycle_count < MaxCycleCount
    /\ cycle_count' = IF mode = "cycles" THEN cycle_count + 1 ELSE cycle_count
    /\ \E perm \in Permutations_(video_urls) :
          /\ shuffle \/ perm = video_urls
          /\ video_urls' = perm
          /\ cycle_list' = Capped(perm, max_videos)
    /\ stats' = [stats EXCEPT
                   !.cycles_completed = IF mode = "cycles" THEN @ + 1 ELSE @]
    /\ i' = 1
    /\ cycle_seen' = <<>>
    /\ pc' = "v_video"
    /\ UNCHANGED <<argVars, extVars, pmVars, watchVars, poolVars, fetchVars, use_proxy,
                   current_proxy, driver, sessions, saved, mode, cycle_proxy,
                   last_attempt, driver_failed, interrupted, summaries>>

\* The for loop at a URL that is not a RuTube link.
vw_skip_video ==
    /\ pc = "v_video"
    /\ i <= Len(cycle_list)
    /\ cycle_list[i] \notin valid
    /\ stats' = vw_update_stats(stats, FALSE)
    /\ i' = i + 1
    /\ cycle_seen' = Append(cycle_seen, cycle_list[i])
    /\ UNCHANGED <<pc, argVars, extVars, pmVars, watchVars, poolVars, fetchVars,
                   video_urls, use_proxy, current_proxy, driver, sessions,
                   saved, cycle_count, cycle_list, mode, cycle_proxy,
                   last_attempt, driver_failed, interrupted, summaries>>

\* The for loop at a RuTube link: the pause and watch_video begin.
vw_watch_video ==
    /\ pc = "v_video"
    /\ i <= Len(cycle_list)
    /\ cycle_list[i] \in valid
    /\ pc' = "v_watching"
    /\ handed' = handed + 1
    /\ cycle_seen' = Append(cycle_seen, cycle_list[i])
    /\ UNCHANGED <<argVars, cache_file, pool_from, v3Vars, pauses, pmVars, watchVars, poolVars, fetchVars,
                   video_urls, use_proxy, current_proxy, driver, sessions,
                   stats, saved, cycle_count, i, cycle_list, mode,
                   cycle_proxy, last_attempt, driver_failed, interrupted,
                   summaries>>

\* watch_video returns: _update_stats, and save_stats at every fifth video.
vw_record_video ==
    /\ pc = "v_watching"
    /\ \E success \in BOOLEAN :
          /\ stats' = vw_update_stats(stats, success)
          /\ saved' = IF i % 5 = 0
                      THEN save_stats(vw_update_stats(stats, success))
                      ELSE saved
          /\ last_attempt' = [url |-> cycle_list[i], proxy |-> None,
                              success |-> success]
    /\ i' = i + 1
    /\ pc' = "v_video"
    /\ UNCHANGED <<argVars, extVars, pmVars, watchVars, poolVars, fetchVars,
                   video_urls, use_proxy, current_proxy, driver, sessions,
                   cycle_count, cycle_list, mode, cycle_proxy, cycle_seen,
                   driver_failed, interrupted, summaries>>

\* process_videos is through: print_summary comes next for a single pass or
\* when the cycles are done, else _cycle_pause.
vw_end_videos ==
    /\ pc = "v_video"
    /\ i > Len(cycle_list)
    /\ pc' = IF mode = "single" \/ loop_done(cycles, cycle_count)
             THEN "v_summary" ELSE "v_pause"
    /\ UNCHANGED <<argVars, extVars, pmVars, watchVars, poolVars, fetchVars,
                   video_urls, use_proxy, current_proxy, driver, sessions,
                   stats, saved, cycle_count, i, cycle_list, mode,
                   cycle_proxy, cycle_seen, last_attempt, driver_failed,
                   interrupted, summaries>>

\* _cycle_pause is over; _restart_driver quits the driver and creates a new
\* one, and raises when that fails: run_cycles returns False to run().
vw_restart_driver ==
    /\ pc = "v_pause"
    /\ \E out \in DriverOutcomes :
          /\ sessions' =
                MacCreate(Quit(sessions, driver), driver, out).sessions
          /\ driver' = MacCreate(Quit(sessions, driver), driver, out).driver
          /\ driver_failed' = (out # "ok")
          /\ pc' = IF out = "ok" THEN "v_cycle" ELSE "v_summary"
    /\ UNCHANGED <<argVars, extVars, pmVars, watchVars, poolVars, fetchVars,
                   video_urls, use_proxy, current_proxy, stats, saved,
                   cycle_count, i, cycle_list, mode, cycle_proxy, cycle_seen,
                   last_attempt, interrupted, summaries>>

\* Ctrl+C while the viewer sleeps (watch loop, pause between cycles): the
\* handler of run_cycles returns False to run(), which goes on to
\* print_summary; in a single pass the KeyboardInterrupt reaches the
\* handler of run(), which only logs.
vw_KeyboardInterrupt ==
    /\ pc \in {"v_watching", "v_pause"}
    /\ interrupted' = TRUE
    /\ pc' = IF mode = "cycles" THEN "v_summary" ELSE "v_cleanup"
    /\ UNCHANGED <<argVars, extVars, pmVars, watchVars, poolVars, fetchVars,
                   video_urls, use_proxy, current_proxy, driver, sessions,
                   stats, saved, cycle_count, i, cycle_list, mode,
                   cycle_proxy, cycle_seen, last_attempt, driver_failed,
                   summaries>>

vw_print_summary ==
    /\ pc = "v_summary"
    /\ summaries' = summaries + 1
    /\ pc' = "v_cleanup"
    /\ UNCHANGED <<argVars, extVars, pmVars, watchVars, poolVars, fetchVars,
                   video_urls, use_proxy, current_proxy, driver, sessions,
                   stats, saved, cycle_count, i, cycle_list, mode,
                   cycle_proxy, cycle_seen, last_attempt, driver_failed,
                   interrupted>>

\* The finally block of run(): _cleanup quits the driver and saves.
vw_cleanup ==
    /\ pc = "v_cleanup"
    /\ sessions' = Quit(sessions, driver)
    /\ saved' = save_stats(stats)
    /\ pc' = "exit"
    /\ UNCHANGED <<argVars, extVars, pmVars, watchVars, poolVars, fetchVars,
                   video_urls, use_proxy, current_proxy, driver, stats,
                   cycle_count, i, cycle_list, mode, cycle_proxy, cycle_seen,
                   last_attempt, driver_failed, interrupted, summaries>>

InitViewer ==
    /\ InitArgs /\ InitIdle /\ InitNoPool /\ InitNoManager /\ InitNoExt /\ InitNoFetch
    /\ InitNoWatch
    /\ pc = "v_start"
    /\ use_proxy = FALSE

NextViewer ==
    \/ vw_run
    \/ vw_cycle_begin
    \/ vw_skip_video
    \/ vw_watch_video
    \/ vw_record_video
    \/ vw_end_videos
    \/ vw_restart_driver
    \/ vw_KeyboardInterrupt
    \/ vw_print_summary
    \/ vw_cleanup

SpecViewer == InitViewer /\ [][NextViewer]_vars

\* C22: a run that got as far as its videos prints the final summary
\* exactly once before it exits, after an interrupt as well, with
\* cycles = 1 as with any other cycle count.
C22_SummaryPrintedOnce ==
    /\ summaries <= 1
    /\ (pc = "exit" /\ i >= 1) => summaries = 1

\* ------------------- RuTubeViewer (Script/rutube_viewer_cycles1.py), cycles
\* The browser sessions that were started and not quit.
Alive(ss) == {k \in DOMAIN ss : ss[k].quits = 0}

restart_keeps_driver(ss, d) == ss

\* _restart_driver's first half: "if self.driver: self.driver.quit()".
restart_quit(ss, d) == Quit(ss, d)

\* run() up to its branch on cycles; a failed create_driver returns through
\* the finally block (_cleanup).
cy_run ==
    /\ pc = "y_start"
    /\ \E out \in DriverOutcomes :
         LET made == MacCreate(sessions, driver, out)
         IN /\ driver' = made.driver
            /\ driver_failed' = (out # "ok")
            /\ IF out = "ok"
               THEN /\ sessions' = made.sessions
                    /\ pc' = "y_cycle"
                    /\ UNCHANGED saved
               ELSE /\ sessions' = Quit(made.sessions, made.driver)
                    /\ saved' = save_stats(stats)
                    /\ pc' = "exit"
    /\ mode' = IF cycles # 1 THEN "cycles" ELSE "single"
    /\ UNCHANGED <<argVars, extVars, pmVars, watchVars, poolVars, fetchVars,
                   video_urls, use_proxy, current_proxy, stats, cycle_count,
                   i, cycle_list, cycle_proxy, cycle_seen, last_attempt,
                   interrupted, summaries>>

\* The head of a pass of run_cycles' while loop (the counters) and of
\* process_videos (shuffle, cap, total_videos).
cy_cycle_begin ==
    /\ pc = "y_cycle"
    /\ cycle_count < MaxCycleCount
    /\ cycle_count' = IF mode = "cycles" THEN cycle_count + 1 ELSE cycle_count
    /\ \E perm \in Permutations_(video_urls) :
          /\ shuffle \/ perm = video_urls
          /\ video_urls' = perm
          /\ cycle_list' = Capped(perm, max_videos)
          /\ stats' = [stats EXCEPT
                 !.cycles_completed = IF mode = "cycles" THEN @ + 1 ELSE @,
                 !.total_videos = @ + Len(Capped(perm, max_videos))]
    /\ i' = 1
    /\ cycle_seen' = <<>>
    /\ pc' = "y_video"
    /\ UNCHANGED <<argVars, extVars, pmVars, watchVars, poolVars, fetchVars,
                   use_proxy, current_proxy, driver, sessions, saved, mode,
                   cycle_proxy, last_attempt, driver_failed, interrupted,
                   summaries>>

\* The for loop at a URL that is not a RuTube link.
cy_skip_video ==
    /\ pc = "y_video"
    /\ i <= Len(cycle_list)
    /\ cycle_list[i] \notin valid
    /\ stats' = [stats EXCEPT !.failed_views = @ + 1]
    /\ i' = i + 1
    /\ cycle_seen' = Append(cycle_seen, cycle_list[i])
    /\ UNCHANGED <<pc, argVars, extVars, pmVars, watchVars, poolVars,
                   fetchVars, video_urls, use_proxy, current_proxy, driver,
                   sessions, saved, cycle_count, cycle_list, mode,
                   cycle_proxy, last_attempt, driver_failed, interrupted,
                   summaries>>

\* The for loop at a RuTube link: the pause and watch_video begin.
cy_watch_video ==
    /\ pc = "y_video"
    /\ i <= Len(cycle_list)
    /\ cycle_list[i] \in valid
    /\ pc' = "y_watching"
    /\ handed' = handed + 1
    /\ cycle_seen' = Append(cycle_seen, cycle_list[i])
    /\ UNCHANGED <<argVars, cache_file, pool_from, v3Vars, pauses, pmVars, watchVars, poolVars, fetchVars,
                   video_urls, use_proxy, current_proxy, driver, sessions,
                   stats, saved, cycle_count, i, cycle_list, mode,
                   cycle_proxy, last_attempt, driver_failed, interrupted,
                   summaries>>

\* watch_video returns: the history entry, the counters, save_stats.
cy_record_video ==
    /\ pc = "y_watching"
    /\ \E success \in BOOLEAN :
          /\ stats' = record_view(stats, success)
          /\ saved' = save_stats(record_view(stats, success))
          /\ last_attempt' = [url |-> cycle_list[i], proxy |-> None,
                              success |-> success]
    /\ i' = i + 1
    /\ pc' = "y_video"
    /\ UNCHANGED <<argVars, extVars, pmVars, watchVars, poolVars, fetchVars,
                   video_urls, use_proxy, current_proxy, driver, sessions,
                   cycle_count, cycle_list, mode, cycle_proxy, cycle_seen,
                   driver_failed, interrupted, summaries>>

\* process_videos is through: the break of run_cycles (or the single pass
\* of run) leads to print_summary, anything else to the pause.
cy_end_videos ==
    /\ pc = "y_video"
    /\ i > Len(cycle_list)
    /\ pc' = IF mode = "single" \/ loop_done(cycles, cycle_count)
             THEN "y_summary" ELSE "y_pause"
    /\ UNCHANGED <<argVars, extVars, pmVars, watchVars, poolVars, fetchVars,
                   video_urls, use_proxy, current_proxy, driver, sessions,
                   stats, saved, cycle_count, i, cycle_list, mode,
                   cycle_proxy, cycle_seen, last_attempt, driver_failed,
                   interrupted, summaries>>

\* _pause_between_cycles ran to its end.
cy_pause_between_cycles ==
    /\ pc = "y_pause"
    /\ cycles = 0 \/ cycle_count < cycles
    /\ pauses' = pauses + 1
    /\ pc' = "y_quit"
    /\ UNCHANGED <<argVars, cache_file, pool_from, handed, v3Vars, pmVars,
                   watchVars,
                   poolVars, fetchVars, viewerVars, mode>>

\* _restart_driver, first half: the old driver is quit.
cy_quit_driver ==
    /\ pc = "y_quit"
    /\ sessions' = restart_quit(sessions, driver)
    /\ pc' = "y_create"
    /\ UNCHANGED <<argVars, extVars, pmVars, watchVars, poolVars, fetchVars,
                   video_urls, use_proxy, current_proxy, driver, stats,
                   saved, cycle_count, i, cycle_list, mode, cycle_proxy,
                   cycle_seen, last_attempt, driver_failed, interrupted,
                   summaries>>

\* _restart_driver, second half: create_driver, and the raise that ends
\* run_cycles when it fails.
cy_create_driver ==
    /\ pc = "y_create"
    /\ \E out \in DriverOutcomes :
          /\ sessions' = MacCreate(sessions, driver, out).sessions
          /\ driver' = MacCreate(sessions, driver, out).driver
          /\ driver_failed' = (out # "ok")
          /\ pc' = IF out = "ok" THEN "y_cycle" ELSE "y_summary"
    /\ UNCHANGED <<argVars, extVars, pmVars, watchVars, poolVars, fetchVars,
                   video_urls, use_proxy, current_proxy, stats, saved,
                   cycle_count, i, cycle_list, mode, cycle_proxy, cycle_seen,
                   last_attempt, interrupted, summaries>>

\* Ctrl+C while the viewer sleeps: run_cycles returns False, or run()'s own
\* handler takes it; print_summary follows either way.
cy_KeyboardInterrupt ==
    /\ pc \in {"y_watching", "y_pause"}
    /\ interrupted' = TRUE
    /\ pc' = "y_summary"
    /\ UNCHANGED <<argVars, extVars, pmVars, watchVars, poolVars, fetchVars,
                   video_urls, use_proxy, current_proxy, driver, sessions,
                   stats, saved, cycle_count, i, cycle_list, mode,
                   cycle_proxy, cycle_seen, last_attempt, driver_failed,
                   summaries>>

\* print_summary, then the finally block: _cleanup quits and saves.
cy_finish ==
    /\ pc = "y_summary"
    /\ summaries' = summaries + 1
    /\ sessions' = Quit(sessions, driver)
    /\ saved' = save_stats(stats)
    /\ pc' = "exit"
    /\ UNCHANGED <<argVars, extVars, pmVars, watchVars, poolVars, fetchVars,
                   video_urls, use_proxy, current_proxy, driver, stats,
                   cycle_count, i, cycle_list, mode, cycle_proxy, cycle_seen,
                   last_attempt, driver_failed, interrupted>>

InitCycles ==
    /\ InitArgs /\ InitIdle /\ InitNoPool /\ InitNoManager /\ InitNoExt
    /\ InitNoFetch /\ InitNoWatch
    /\ pc = "y_start"
    /\ use_proxy = FALSE

NextCycles ==
    \/ cy_run
    \/ cy_cycle_begin
    \/ cy_skip_video
    \/ cy_watch_video
    \/ cy_record_video
    \/ cy_end_videos
    \/ cy_pause_between_cycles
    \/ cy_quit_driver
    \/ cy_create_driver
    \/ cy_KeyboardInterrupt
    \/ cy_finish

SpecCycles == InitCycles /\ [][NextCycles]_vars

\* C24: at most one browser session is alive at any time; a new session is
\* created only after the pause was slept and the old session closed, one
\* pause per cycle gone by; a run that ends after its last cycle has slept
\* one pause less than it ran cycles and created one session per cycle.
C24_OneSessionPauseCloseCreate ==
    /\ Cardinality(Alive(sessions)) <= 1
    /\ pc = "y_quit" => pauses = cycle_count
    /\ pc = "y_create" => (Alive(sessions) = {} /\ pauses = cycle_count)
    /\ (pc \in {"y_video", "y_watching"} /\ mode = "cycles") =>
          pauses = cycle_count - 1
    /\ (pc = "exit" /\ ~interrupted /\ ~driver_failed) =>
          /\ Len(sessions) = pauses + 1
          /\ pauses = IF mode = "single" THEN 0 ELSE cycles - 1
          /\ Alive(sessions) = {}

\* A second cycle is about to get its new session: the pause is over and
\* the first cycle's session is closed.
C24_Witness ==
    /\ pc = "y_create"
    /\ cycle_count = 1
    /\ pauses = 1
    /\ Len(sessions) = 1 /\ sessions[1].quits = 1

\* ------------------------------------------- ProxyManager as its users see it
\* The three programs that own a ProxyManager: manage_proxies_only
\* ("manage") and RuTubeViewerPro ("pro") of rutube_pro.py, and the bot of
\* Proxy/rutube_viewer_proxy.py and Script/rutube_viewer_proxy1.py ("px").
\* Evictions and selections may come from any worker thread at any moment
\* the pool is published, the validation pass included.
MaxWorkers == 2
MaxFileLines == 2

PoolModes == {"manage", "pro", "px"}

\* The stripped, non-empty lines of the file given with --proxy-file.
FileLines == UNION {[1..n -> Proxies] : n \in 0..MaxFileLines}

\* manage_proxies_only with --proxy-file: the first max_proxies lines.
load_proxy_file(lines, maxp) ==
    SubSeq(lines, 1, IF Len(lines) < maxp THEN Len(lines) ELSE maxp)

\* asyncio.Semaphore(max_workers): a probe starts only below the limit.
semaphore_open(flying, limit) == TRUE
semaphore_free(flying, limit) == flying < limit

Flying == Cardinality({k \in DOMAIN probes : probes[k] = "flying"})

\* The candidates whose probe returned a result, in candidate order.
passed_probes(res) ==
    SelectSeq([k \in 1..Len(res) |-> k], LAMBDA k : res[k] # 0)

every_candidate(cands, res) == cands
working_unsorted(cands, res) ==
    [j \in 1..Len(passed_probes(res)) |-> cands[passed_probes(res)[j]]]

\* The candidates that are not in the working list.
failed_candidates(cands, working) ==
    SelectSeq(cands, LAMBDA p : ~InList(p, working))

\* The passing results sorted by response time (stable).
working_sorted(cands, res) ==
    LET order == SortByTime(passed_probes(res), res)
    IN [j \in 1..Len(order) |-> cands[order[j]]]

\* save_results: proxy_results.json takes the pool as it is.
save_results(pool) == [written |-> TRUE, pool |-> pool]

\* mark_proxy_failed of the manager in use.
pm_evict(pool, proxy) ==
    IF mode = "px" THEN px_mark_proxy_failed(pool, proxy)
    ELSE mark_proxy_failed(pool, proxy)

Published == pc \in {"publish2", "ready", "ready_cached"}

\* A new process: ProxyManager.__init__. The variable cache stands for a
\* proxy_results.json that is less than an hour old: the file may have
\* aged out when the process starts, and only RuTubeViewerPro ever reads
\* it (manage_proxies_only overwrites it, the px manager ignores it), so
\* for the other programs the process starts as without a file.
pm_new_process ==
    /\ pc \in {"ready", "ready_cached", "dead"}
    /\ pc' = "new"
    /\ mode' \in PoolModes
    /\ cache' \in IF mode' = "pro" THEN {cache, NoCache} ELSE {NoCache}
    /\ max_proxies' \in 1..NumProxies
    /\ SetPool(EmptyPool)
    /\ proxies' = <<>>
    /\ fetch_result' = "none"
    /\ probes' = <<>> /\ probe_results' = <<>> /\ probed' = <<>>
    /\ max_workers' = 1
    /\ last_op' = NoOp
    /\ evicted' = {}
    /\ UNCHANGED <<argVars, extVars, watchVars, viewerVars, responses, all_down>>

\* initialize_proxies of RuTubeViewerPro starts with load_previous_results:
\* a file less than an hour old replaces the pool, without the lock;
\* anything else returns False and leads to fetch_proxies.
pm_load_previous_results ==
    /\ pc = "new" /\ mode = "pro"
    /\ IF cache.written
       THEN /\ SetPool(cache.pool)
            /\ pc' = "ready_cached"
            /\ last_op' = [op |-> "load", arg |-> None, result |-> None,
                           locked |-> FALSE, before |-> ThePool]
       ELSE /\ pc' = "fetch"
            /\ UNCHANGED <<poolVars, last_op>>
    /\ UNCHANGED <<argVars, extVars, watchVars, viewerVars, fetchVars, mode,
                   max_workers, probes, probe_results, probed, cache, evicted>>

\* manage_proxies_only with --proxy-file.
pm_load_proxy_file ==
    /\ pc = "new" /\ mode = "manage"
    /\ \E lines \in FileLines :
         proxies' = load_proxy_file(lines, max_proxies)
    /\ pc' = "cands"
    /\ UNCHANGED <<argVars, extVars, pmVars, watchVars, viewerVars, poolVars, mode,
                   max_proxies, responses, fetch_result, all_down>>

\* What fetch_proxies can leave behind, over all answers of the sources.
fetch_proxies_outcomes ==
    [m \in 1..NumProxies |->
        UNION {fetch_proxies(rs, m) : rs \in [1..NumSources -> Responses]}]

px_fetch_proxies_outcomes ==
    [m \in 1..NumProxies |->
        UNION {px_fetch_proxies(rs, m) :
                  rs \in [1..NumSources -> Responses]}]

\* fetch_proxies of the manager in use; a raise ends the manager's use.
pm_fetch_proxies ==
    /\ \/ pc = "new" /\ mode \in {"manage", "px"}
       \/ pc = "fetch"
    /\ \E f \in IF mode = "px" THEN px_fetch_proxies_outcomes[max_proxies]
                ELSE fetch_proxies_outcomes[max_proxies] :
         IF f.raised
         THEN /\ fetch_result' = "raised"
              /\ pc' = "dead"
              /\ UNCHANGED proxies
         ELSE /\ fetch_result' = "returned"
              /\ proxies' = f.proxies
              /\ pc' = "cands"
    /\ UNCHANGED <<argVars, extVars, pmVars, watchVars, viewerVars, poolVars, mode,
                   max_proxies, responses, all_down>>

\* validate_proxies up to gather: the semaphore and one task per candidate.
pm_validate_begin ==
    /\ pc = "cands"
    /\ max_workers' \in 1..MaxWorkers
    /\ probes' = [k \in DOMAIN proxies |-> "waiting"]
    /\ probe_results' = [k \in DOMAIN proxies |-> 0]
    /\ probed' = [k \in DOMAIN proxies |-> 0]
    /\ evicted' = {}
    /\ pc' = "gather"
    /\ UNCHANGED <<argVars, extVars, watchVars, viewerVars, poolVars, fetchVars, mode,
                   cache, last_op>>

\* test_with_semaphore: a task enters the semaphore and calls test_proxy.
pm_probe_begin ==
    /\ pc = "gather"
    /\ semaphore_free(Flying, max_workers)
    /\ \E k \in DOMAIN probes :
         /\ probes[k] = "waiting"
         /\ probes' = [probes EXCEPT ![k] = "flying"]
         /\ probed' = [probed EXCEPT ![k] = @ + 1]
    /\ UNCHANGED <<pc, argVars, extVars, watchVars, viewerVars, poolVars, fetchVars,
                   mode, max_workers, probe_results, cache, last_op,
                   evicted>>

\* test_proxy returns (None or a result with its response time) and the
\* task leaves the semaphore.
pm_probe_end ==
    /\ pc = "gather"
    /\ \E k \in DOMAIN probes, r \in 0..2 :
         /\ probes[k] = "flying"
         /\ probes' = [probes EXCEPT ![k] = "done"]
         /\ probe_results' = [probe_results EXCEPT ![k] = r]
    /\ UNCHANGED <<pc, argVars, extVars, watchVars, viewerVars, poolVars, fetchVars,
                   mode, max_workers, probed, cache, last_op, evicted>>

\* validate_proxies after gather: the working list in candidate order, and
\* in rutube_pro.py the failed list and the counters. The lock is not taken.
pm_publish ==
    /\ pc = "gather"
    /\ \A k \in DOMAIN probes : probes[k] = "done"
    /\ LET w == working_unsorted(proxies, probe_results)
           f == failed_candidates(proxies, w)
       IN IF mode = "px"
          THEN /\ working_proxies' = w
               /\ UNCHANGED <<failed_proxies, pm_stats>>
               /\ pc' = "ready"
          ELSE /\ SetPool([working |-> w, failed |-> f,
                           stats |-> [working_count |-> Len(w),
                                      failed_count |-> Len(f)]])
               /\ pc' = "publish2"
    /\ last_op' = [op |-> "publish", arg |-> None, result |-> None,
                   locked |-> FALSE, before |-> ThePool]
    /\ UNCHANGED <<argVars, extVars, watchVars, viewerVars, fetchVars, mode,
                   max_workers, probes, probe_results, probed, cache,
                   evicted>>

\* rutube_pro.py only: the working list is assigned a second time, sorted
\* by response time, and save_results writes the pool to disk.
pm_publish_sorted ==
    /\ pc = "publish2"
    /\ working_proxies' = working_sorted(proxies, probe_results)
    /\ cache' = save_results([ThePool EXCEPT
                     !.working = working_sorted(proxies, probe_results)])
    /\ last_op' = [op |-> "publish_sorted", arg |-> None, result |-> None,
                   locked |-> FALSE, before |-> ThePool]
    /\ pc' = "ready"
    /\ UNCHANGED <<argVars, extVars, watchVars, viewerVars, fetchVars, mode,
                   failed_proxies, pm_stats, max_workers, probes,
                   probe_results, probed, evicted>>

\* get_random_proxy from a worker, under the lock.
pm_get_random_proxy ==
    /\ Published /\ mode # "manage"
    /\ \E r \in get_random_proxy(working_proxies) :
         last_op' = [op |-> "select", arg |-> None, result |-> r,
                     locked |-> TRUE, before |-> ThePool]
    /\ UNCHANGED <<pc, argVars, extVars, watchVars, viewerVars, poolVars, fetchVars,
                   mode, max_workers, probes, probe_results, probed, cache,
                   evicted>>

\* mark_proxy_failed from a worker, under the lock, for any address.
pm_mark_proxy_failed ==
    /\ Published /\ mode # "manage"
    /\ \E x \in Proxies :
         /\ SetPool(pm_evict(ThePool, x))
         /\ last_op' = [op |-> "evict", arg |-> x, result |-> None,
                        locked |-> TRUE, before |-> ThePool]
         /\ evicted' = IF InList(x, working_proxies)
                       THEN evicted \cup {x} ELSE evicted
    /\ UNCHANGED <<pc, argVars, extVars, watchVars, viewerVars, fetchVars, mode,
                   max_workers, probes, probe_results, probed, cache>>

InitPool ==
    /\ cycles = 1 /\ max_videos = 0 /\ shuffle = FALSE
    /\ video_urls = <<>> /\ valid = {}
    /\ use_proxy = TRUE
    /\ current_proxy = None /\ driver = 0 /\ sessions = <<>>
    /\ stats = NoStats /\ saved = NoFile
    /\ cycle_count = 0 /\ i = 0 /\ cycle_list = <<>>
    /\ cycle_proxy = None /\ cycle_seen = <<>> /\ last_attempt = NoAttempt
    /\ driver_failed = FALSE /\ interrupted = FALSE /\ summaries = 0
    /\ InitNoPool /\ InitNoManager /\ InitNoExt /\ InitNoWatch
    /\ proxies = <<>> /\ responses = <<>> /\ fetch_result = "none"
    /\ all_down = FALSE
    /\ pc = "new"
    /\ mode \in PoolModes
    /\ max_proxies \in 1..NumProxies

NextPool ==
    \/ pm_new_process
    \/ pm_load_previous_results
    \/ pm_load_proxy_file
    \/ pm_fetch_proxies
    \/ pm_validate_begin
    \/ pm_probe_begin
    \/ pm_probe_end
    \/ pm_publish
    \/ pm_publish_sorted
    \/ pm_get_random_proxy
    \/ pm_mark_proxy_failed

SpecPool == InitPool /\ [][NextPool]_vars

\* --------------------------- initialize_proxies and the cached result file
\* proxy_results.json as a process can find it: missing, not JSON, JSON
\* without a timestamp, JSON whose timestamp does not parse, or a saved
\* result whose timestamp lies age seconds back (-1: ahead of the clock).
Ages == {0 - 1, 0, CacheTtl - 1, CacheTtl, CacheTtl + 1}

CacheFiles ==
    {NoCacheFile, [NoCacheFile EXCEPT !.kind = "garbled"]}
    \cup [kind : {"no_timestamp", "bad_timestamp"}, age : {0},
          working : Arrangements(Proxies)]
    \cup [kind : {"saved"}, age : Ages, working : Arrangements(Proxies)]

load_previous_results_lax(file) ==
    file.kind = "saved" /\ file.age <= CacheTtl

\* load_previous_results: True only from the innermost branch; a missing
\* file, a missing timestamp and every exception end in return False.
load_previous_results(file) ==
    IF file.kind = "absent" THEN FALSE
    ELSE IF file.kind = "garbled" THEN FALSE
    ELSE IF file.kind = "no_timestamp" THEN FALSE
    ELSE IF file.kind = "bad_timestamp" THEN FALSE
    ELSE file.age < CacheTtl

\* What load_previous_results copies out of the file.
loaded_pool(file) ==
    [EmptyPool EXCEPT !.working = file.working,
                      !.stats.working_count = Len(file.working)]

\* "if self.use_proxy: await self.initialize_proxies()" of run_cycles_async.
ch_initialize_proxies ==
    /\ pc = "c_start"
    /\ IF ~use_proxy
       THEN /\ pool_from' = "none"
            /\ UNCHANGED <<use_proxy, poolVars, proxies, fetch_result, cache>>
       ELSE IF load_previous_results(cache_file)
       THEN /\ SetPool(loaded_pool(cache_file))
            /\ pool_from' = "cache"
            /\ UNCHANGED <<use_proxy, proxies, fetch_result, cache>>
       ELSE \E f \in fetch_proxies_outcomes[max_proxies],
               rt \in [Proxies -> 0..1] :
            IF f.raised
            THEN /\ use_proxy' = FALSE
                 /\ fetch_result' = "raised"
                 /\ pool_from' = "off"
                 /\ UNCHANGED <<poolVars, proxies, cache>>
            ELSE /\ proxies' = f.proxies
                 /\ fetch_result' = "returned"
                 /\ SetPool(validate_proxies(f.proxies, rt))
                 /\ cache' = save_results(validate_proxies(f.proxies, rt))
                 /\ pool_from' = "pass"
                 /\ use_proxy' =
                        (validate_proxies(f.proxies, rt).working # <<>>)
    /\ pc' = "c_ready"
    /\ UNCHANGED <<argVars, watchVars, video_urls, current_proxy, driver,
                   sessions, stats, saved, cycle_count, i, cycle_list,
                   cycle_proxy, cycle_seen, last_attempt, driver_failed,
                   interrupted, summaries, mode, max_proxies, responses,
                   all_down, max_workers, probes, probe_results, probed,
                   last_op, evicted, cache_file, pauses, handed, v3Vars>>

\* run_cycle's get_next_proxy: the first selection of the process.
ch_get_next_proxy ==
    /\ pc = "c_ready"
    /\ \E r \in get_next_proxy :
         /\ last_op' = [op |-> "select", arg |-> None, result |-> r,
                        locked |-> TRUE, before |-> ThePool]
         /\ current_proxy' = r
    /\ pc' = "c_selected"
    /\ UNCHANGED <<argVars, extVars, watchVars, poolVars, fetchVars,
                   video_urls, use_proxy, driver, sessions, stats, saved,
                   cycle_count, i, cycle_list, cycle_proxy, cycle_seen,
                   last_attempt, driver_failed, interrupted, summaries, mode,
                   max_workers, probes, probe_results, probed, cache,
                   evicted>>

\* The next start of the program, with or without --use-proxy, finds the
\* file in any of its conditions.
ch_new_process ==
    /\ pc = "c_selected"
    /\ pc' = "c_start"
    /\ use_proxy' \in BOOLEAN
    /\ cache_file' \in CacheFiles
    /\ max_proxies' \in 1..NumProxies
    /\ SetPool(EmptyPool)
    /\ proxies' = <<>>
    /\ fetch_result' = "none"
    /\ cache' = NoCache
    /\ last_op' = NoOp
    /\ current_proxy' = None
    /\ pool_from' = "none"
    /\ UNCHANGED <<argVars, watchVars, video_urls, driver, sessions, stats,
                   saved, cycle_count, i, cycle_list, cycle_proxy,
                   cycle_seen, last_attempt, driver_failed, interrupted,
                   summaries, mode, responses, all_down, max_workers, probes,
                   probe_results, probed, evicted, pauses, handed, v3Vars>>

InitCache ==
    /\ cycles = 1 /\ max_videos = 0 /\ shuffle = FALSE
    /\ video_urls = <<>> /\ valid = {}
    /\ InitIdle /\ InitNoPool /\ InitNoManager /\ InitNoFetch /\ InitNoWatch
    /\ pc = "c_start"
    /\ use_proxy \in BOOLEAN
    /\ cache_file \in CacheFiles
    /\ pool_from = "none"
    /\ pauses = 0
    /\ handed = 0
    /\ InitNoV3

NextCache ==
    \/ ch_initialize_proxies
    \/ ch_get_next_proxy
    \/ ch_new_process

SpecCache == InitCache /\ [][NextCache]_vars

\* C21: with proxy mode on, the pool is the cached one exactly when the
\* file holds a result whose timestamp is less than CacheTtl seconds old;
\* in every other case a selection from the pool only follows a completed
\* fetch + validate pass, whose working list is the pool.
C21_CachedIffFresh ==
    (pc \in {"c_ready", "c_selected"} /\ pool_from # "none") =>
        /\ pool_from = "cache" <=>
              (cache_file.kind = "saved" /\ cache_file.age < CacheTtl)
        /\ pool_from = "cache" => working_proxies = cache_file.working
        /\ (pool_from # "cache" /\ pc = "c_selected"
              /\ current_proxy # None) =>
              /\ pool_from = "pass"
              /\ cache.written
              /\ cache.pool.working = working_proxies
              /\ \A k \in DOMAIN working_proxies :
                    InList(working_proxies[k], proxies)

\* A stale file, exactly CacheTtl old, was passed over and a proxy of the
\* fresh pass was selected.
C21_Witness ==
    /\ pc = "c_selected"
    /\ cache_file.kind = "saved" /\ cache_file.age = CacheTtl
    /\ cache_file.working # <<>>
    /\ pool_from = "pass"
    /\ current_proxy # None

\* ------------------------------------------------- the counters of a run
\* The four programs whose counters the run statistics are, side by side:
\* RuTubeViewerPro, the proxy1 viewer, RutubeBot and the mac_fixed viewer.
InitCounters == InitPro \/ InitP1 \/ InitBot \/ InitMac

NextCounters == NextPro \/ NextP1 \/ NextBot \/ NextMac

SpecCounters == InitCounters /\ [][NextCounters]_vars

Digits == {"0", "1", "2"}
Chars == Digits \cup {"-", ":", " ", "x"}

RECURSIVE StringsOfLen(_)
StringsOfLen(n) ==
    IF n = 0 THEN {<<>>}
    ELSE {Append(s, c) : s \in StringsOfLen(n - 1), c \in Chars}

Strings == UNION {StringsOfLen(n) : n \in 0..MaxLen}

DigitVal(c) == IF c = "0" THEN 0 ELSE IF c = "1" THEN 1 ELSE 2

\* str.strip()
RECURSIVE strip(_)
strip(s) ==
    IF s = <<>> THEN s
    ELSE IF s[1] = " " THEN strip(Tail(s))
    ELSE IF s[Len(s)] = " " THEN strip(SubSeq(s, 1, Len(s) - 1))
    ELSE s

RECURSIVE DecimalValue(_)
DecimalValue(s) ==
    IF s = <<>> THEN 0
    ELSE 10 * DecimalValue(SubSeq(s, 1, Len(s) - 1)) + DigitVal(s[Len(s)])

\* int(s): blanks around, an optional sign, one digit at least, else
\* ValueError (ok = FALSE).
py_int(s) ==
    LET t == strip(s)
        neg == t # <<>> /\ t[1] = "-"
        body == IF neg THEN Tail(t) ELSE t
    IN IF body = <<>> \/ \E k \in DOMAIN body : body[k] \notin Digits
       THEN [ok |-> FALSE, val |-> 0]
       ELSE [ok |-> TRUE,
             val |-> IF neg THEN 0 - DecimalValue(body)
                     ELSE DecimalValue(body)]

\* str.split(sep)
RECURSIVE split(_, _)
split(s, sep) ==
    IF ~InList(sep, s) THEN <<s>>
    ELSE LET k == CHOOSE j \in DOMAIN s :
                     s[j] = sep /\ \A h \in 1..(j - 1) : s[h] # sep
         IN <<SubSeq(s, 1, k - 1)>> \o split(SubSeq(s, k + 1, Len(s)), sep)

TimeError == [kind |-> "error", min |-> 0, max |-> 0]
FixedTime(n) == [kind |-> "fixed", min |-> n, max |-> n]

range_any(min_time, max_time) == TRUE

\* The two checks of an interval: neither raise is taken.
range_ok(min_time, max_time) == ~(min_time < 0) /\ ~(max_time < min_time)

\* One pass of "for sep in separators": "next" when the pass falls through.
try_separator(s, sep) ==
    IF ~InList(sep, s) THEN [TimeError EXCEPT !.kind = "next"]
    ELSE LET parts == split(s, sep)
         IN IF Len(parts) # 2 THEN [TimeError EXCEPT !.kind = "next"]
            ELSE LET a == py_int(strip(parts[1]))
                     b == py_int(strip(parts[2]))
                 IN IF ~a.ok \/ ~b.ok THEN TimeError
                    ELSE IF ~range_ok(a.val, b.val) THEN TimeError
                    ELSE [kind |-> "range", min |-> a.val, max |-> b.val]

\* parse_time_input: "error" stands for the ValueError.
parse_time_input(s) ==
    IF s = <<>> THEN FixedTime(DefaultTime)
    ELSE IF try_separator(s, "-").kind # "next" THEN try_separator(s, "-")
    ELSE IF try_separator(s, ":").kind # "next" THEN try_separator(s, ":")
    ELSE IF ~py_int(s).ok \/ py_int(s).val < 0 THEN TimeError
    ELSE FixedTime(py_int(s).val)

\* get_random_time: the values it can return.
get_random_time(spec) ==
    IF spec.kind = "range"
    THEN IF spec.min = spec.max THEN {spec.min} ELSE spec.min..spec.max
    ELSE {spec.min}

\* validate_arguments on --time (mode "time", at least 1 second) or on
\* --delay-between-cycles (mode "delay").
tp_validate_arguments ==
    /\ pc = "t_start"
    /\ mode' \in {"time", "delay"}
    /\ time_spec' = parse_time_input(time_input)
    /\ pc' = IF \/ parse_time_input(time_input).kind = "error"
                \/ (mode' = "time" /\ parse_time_input(time_input).min < 1)
             THEN "t_rejected" ELSE "t_valid"
    /\ UNCHANGED <<argVars, cache_file, pool_from, pauses, handed,
                   time_input, drawn, max_sessions, workers, queue, futures,
                   pmVars, watchVars, poolVars, fetchVars, viewerVars>>

\* A watch time or a pause between cycles is drawn.
tp_get_random_time ==
    /\ pc \in {"t_valid", "t_drawn"}
    /\ drawn' \in get_random_time(time_spec)
    /\ pc' = "t_drawn"
    /\ UNCHANGED <<argVars, cache_file, pool_from, pauses, handed,
                   time_input, time_spec, max_sessions, workers, queue,
                   futures, pmVars, watchVars, poolVars, fetchVars,
                   viewerVars, mode>>

InitTime ==
    /\ cycles = 1 /\ max_videos = 0 /\ shuffle = FALSE
    /\ video_urls = <<>> /\ valid = {}
    /\ InitIdle /\ InitNoPool /\ InitNoManager /\ InitNoFetch /\ InitNoWatch
    /\ use_proxy = FALSE
    /\ cache_file = NoCacheFile /\ pool_from = "none"
    /\ pauses = 0 /\ handed = 0
    /\ time_spec = NoTimeSpec /\ drawn = 0 /\ max_sessions = 1
    /\ workers = <<>> /\ queue = <<>> /\ futures = <<>>
    /\ time_input \in Strings
    /\ pc = "t_start"

NextTime ==
    \/ tp_validate_arguments
    \/ tp_get_random_time

SpecTime == InitTime /\ [][NextTime]_vars

DigitChar(d) == IF d = 0 THEN "0" ELSE IF d = 1 THEN "1" ELSE "2"

\* The numbers the three digits can write in one or two places, and the
\* way they are written.
Nums == {n \in 0..22 : n % 10 <= 2}
Str(n) ==
    IF n < 10 THEN <<DigitChar(n)>>
    ELSE <<DigitChar(n \div 10), DigitChar(n % 10)>>

\* C23: "a-b" and "a:b" with 0 <= a <= b parse to the range (a, b), and
\* with b < a to a ValueError; "n" parses to the fixed time n; a negative
\* bound and a part with a letter give a ValueError; a draw from a range
\* lies in it, every value of the range can be drawn, and a fixed time is
\* drawn as it is.
C23_ParseAndDraw ==
    pc # "t_start" =>
        /\ \A a, b \in Nums, sep \in {"-", ":"} :
              /\ time_input = Str(a) \o <<sep>> \o Str(b) =>
                    time_spec = IF a <= b
                                THEN [kind |-> "range", min |-> a, max |-> b]
                                ELSE TimeError
              /\ time_input \in {<<"-">> \o Str(a) \o <<sep>> \o Str(b),
                                 Str(a) \o <<sep, "-">> \o Str(b)} =>
                    time_spec = TimeError
        /\ \A n \in Nums :
              /\ time_input = Str(n) => time_spec = FixedTime(n)
              /\ time_input = <<"-">> \o Str(n) => time_spec = TimeError
        /\ InList("x", time_input) => time_spec = TimeError
        /\ time_spec.kind = "range" =>
              get_random_time(time_spec) = time_spec.min..time_spec.max
        /\ pc = "t_drawn" =>
              IF time_spec.kind = "range"
              THEN time_spec.min <= drawn /\ drawn <= time_spec.max
              ELSE drawn = time_spec.min

\* From "1:12" the time 2 was drawn.
C23_Witness ==
    /\ pc = "t_drawn"
    /\ time_input = <<"1", ":", "1", "2">>
    /\ time_spec = [kind |-> "range", min |-> 1, max |-> 12]
    /\ drawn = 2

\* ------------------------------ the parallel viewer (rutube_viewer3.py)
\* A browser session of the parallel viewer: held is FALSE for a browser
\* that create_new_session started and then gave up on (it returns None
\* from its except branch and the browser is left running).
ParSession(v, held) ==
    [quits |-> 0, proxy |-> None, video |-> v, held |-> held]

ParStats == [total_videos |-> 0, successful_views |-> 0, failed_views |-> 0,
             total_watch_time |-> 0, history |-> <<>>]

NoFuture == [state |-> "none", success |-> FALSE, watch_time |-> 0,
             attempts |-> 0, last |-> "none"]
IdleWorker == [task |-> 0, phase |-> "idle", retry_count |-> 0, driver |-> 0]

\* The watch-time specs a run can carry: a fixed time and a range.
ParTimeSpecs == {FixedTime(1), [kind |-> "range", min |-> 1, max |-> 2]}

\* _update_stats
v3_update_stats(st, url, success, wt) ==
    [st EXCEPT !.total_videos = @ + 1,
               !.successful_views = IF success THEN @ + 1 ELSE @,
               !.total_watch_time = IF success THEN @ + wt ELSE @,
               !.failed_views = IF success THEN @ ELSE @ + 1,
               !.history = Append(@, [url |-> url, watch_time |-> wt,
                                      success |-> success])]

return_session_keep(ss, d) == ss

\* return_session: the session is quit (and taken out of the pool).
return_session(ss, d) == Quit(ss, d)

\* The next submitted task after position k of the list.
NextSubmitted(fs, k) ==
    IF \E n \in DOMAIN fs : n > k /\ fs[n].state # "none"
    THEN CHOOSE n \in DOMAIN fs :
            /\ n > k /\ fs[n].state # "none"
            /\ \A h \in DOMAIN fs : (h > k /\ fs[h].state # "none") => n <= h
    ELSE Len(fs) + 1

\* process_videos_parallel up to the executor: the cap and the pool size.
par_begin ==
    /\ pc = "par_start"
    /\ cycle_list' = Capped(video_urls, max_videos)
    /\ max_workers' = IF max_sessions < Len(Capped(video_urls, max_videos))
                      THEN max_sessions
                      ELSE Len(Capped(video_urls, max_videos))
    /\ workers' = [w \in 1..max_workers' |-> IdleWorker]
    /\ futures' = [k \in DOMAIN cycle_list' |-> NoFuture]
    /\ queue' = <<>>
    /\ i' = 1
    /\ pc' = "par_submit"
    /\ UNCHANGED <<argVars, cache_file, pool_from, pauses, handed,
                   time_input, time_spec, drawn, max_sessions, watchVars,
                   poolVars, fetchVars, video_urls, use_proxy, current_proxy,
                   driver, sessions, stats, saved, cycle_count, cycle_proxy,
                   cycle_seen, last_attempt, driver_failed, interrupted,
                   summaries, mode, probes, probe_results, probed, cache,
                   last_op, evicted>>

\* One pass of the submitting loop: a link that is not RuTube's is counted
\* as failed, any other is submitted to the executor.
par_submit ==
    /\ pc = "par_submit"
    /\ i <= Len(cycle_list)
    /\ IF cycle_list[i] \notin valid
       THEN /\ stats' = v3_update_stats(stats, cycle_list[i], FALSE, 0)
            /\ UNCHANGED <<futures, queue, handed>>
       ELSE /\ futures' = [futures EXCEPT ![i].state = "queued"]
            /\ queue' = Append(queue, i)
            /\ handed' = handed + 1
            /\ UNCHANGED stats
    /\ i' = i + 1
    /\ UNCHANGED <<pc, argVars, cache_file, pool_from, pauses, time_input,
                   time_spec, drawn, max_sessions, workers, pmVars,
                   watchVars, poolVars, fetchVars, video_urls, use_proxy,
                   current_proxy, driver, sessions, saved, cycle_count,
                   cycle_list, cycle_proxy, cycle_seen, last_attempt,
                   driver_failed, interrupted, summaries, mode>>

\* The submitting loop is through; the loop over the futures begins.
par_submitted ==
    /\ pc = "par_submit"
    /\ i > Len(cycle_list)
    /\ i' = NextSubmitted(futures, 0)
    /\ pc' = "par_results"
    /\ UNCHANGED <<argVars, extVars, pmVars, watchVars, poolVars, fetchVars,
                   video_urls, use_proxy, current_proxy, driver, sessions,
                   stats, saved, cycle_count, cycle_list, cycle_proxy,
                   cycle_seen, last_attempt, driver_failed, interrupted,
                   summaries, mode>>

\* One pass of the loop over the futures: future.result() returns, or its
\* timeout runs out first; _update_stats with a time that get_random_time
\* gives at this point; save_stats at every fifth position.
par_result ==
    /\ pc = "par_results"
    /\ i <= Len(cycle_list)
    /\ \E expected_time \in get_random_time(time_spec) :
         LET f == futures[i]
             counted ==
                 IF f.state = "done"
                 THEN v3_update_stats(stats, cycle_list[i], f.success,
                                      IF f.success THEN expected_time ELSE 0)
                 ELSE v3_update_stats(stats, cycle_list[i], FALSE, 0)
         IN /\ stats' = counted
            /\ saved' = IF i % 5 = 0 THEN save_stats(counted) ELSE saved
            /\ drawn' = expected_time
    /\ i' = NextSubmitted(futures, i)
    /\ UNCHANGED <<pc, argVars, cache_file, pool_from, pauses, handed,
                   time_input, time_spec, max_sessions, workers, queue,
                   futures, pmVars, watchVars, poolVars, fetchVars,
                   video_urls, use_proxy, current_proxy, driver, sessions,
                   cycle_count, cycle_list, cycle_proxy, cycle_seen,
                   last_attempt, driver_failed, interrupted, summaries,
                   mode>>

\* The with block is left when every worker is through; save_stats.
par_finish ==
    /\ pc = "par_results"
    /\ i > Len(cycle_list)
    /\ queue = <<>>
    /\ \A w \in DOMAIN workers : workers[w].phase = "idle"
    /\ saved' = save_stats(stats)
    /\ pc' = "par_done"
    /\ UNCHANGED <<argVars, extVars, pmVars, watchVars, poolVars, fetchVars,
                   video_urls, use_proxy, current_proxy, driver, sessions,
                   stats, i, cycle_count, cycle_list, cycle_proxy,
                   cycle_seen, last_attempt, driver_failed, interrupted,
                   summaries, mode>>

\* What a failed attempt leaves of the worker and its task: the next
\* attempt, or return False after the last one.
after_failure(wk, f, how) ==
    IF wk.retry_count + 1 <= MaxRetries
    THEN [worker |-> [wk EXCEPT !.retry_count = @ + 1, !.phase = "get",
                                !.driver = 0],
          future |-> [f EXCEPT !.last = how]]
    ELSE [worker |-> IdleWorker,
          future |-> [f EXCEPT !.last = how, !.state = "done",
                               !.success = FALSE]]

\* A thread of the executor takes the next task: watch_video begins and
\* draws its watch time.
wk_take(w) ==
    /\ workers[w].phase = "idle"
    /\ queue # <<>>
    /\ \E d \in get_random_time(time_spec) :
         futures' = [futures EXCEPT ![Head(queue)].state = "running",
                                    ![Head(queue)].watch_time = d]
    /\ workers' = [workers EXCEPT ![w] = [IdleWorker EXCEPT
                                            !.task = Head(queue),
                                            !.phase = "get"]]
    /\ queue' = Tail(queue)
    /\ UNCHANGED <<pc, argVars, cache_file, pool_from, pauses, handed,
                   time_input, time_spec, drawn, max_sessions, pmVars,
                   watchVars, poolVars, fetchVars, viewerVars, mode>>

\* The head of an attempt: get_session. session_pool is never added to, so
\* get_session always goes on to create_new_session, which gives a session,
\* or None without a browser, or None with a browser left behind.
wk_get_session(w) ==
    /\ workers[w].phase = "get"
    /\ \E out \in DriverOutcomes :
         LET v == workers[w].task
             f == [futures[v] EXCEPT !.attempts = @ + 1]
             failed == after_failure(workers[w], f, "no_session")
         IN IF out = "ok"
            THEN /\ sessions' = Append(sessions, ParSession(v, TRUE))
                 /\ workers' = [workers EXCEPT
                                  ![w].driver = Len(sessions) + 1,
                                  ![w].phase = "watching"]
                 /\ futures' = [futures EXCEPT ![v] = f]
            ELSE /\ sessions' = IF out = "fail_late"
                                THEN Append(sessions, ParSession(v, FALSE))
                                ELSE sessions
                 /\ workers' = [workers EXCEPT ![w] = failed.worker]
                 /\ futures' = [futures EXCEPT ![v] = failed.future]
    /\ UNCHANGED <<pc, argVars, cache_file, pool_from, pauses, handed,
                   time_input, time_spec, drawn, max_sessions, queue, pmVars,
                   watchVars, poolVars, fetchVars, video_urls, use_proxy,
                   current_proxy, driver, stats, saved, cycle_count, i,
                   cycle_list, cycle_proxy, cycle_seen, last_attempt,
                   driver_failed, interrupted, summaries, mode>>

\* The rest of an attempt: the page, the simulated watching, and the
\* finally block's _close_browser_window; return True on success.
wk_attempt_end(w) ==
    /\ workers[w].phase = "watching"
    /\ sessions' = return_session(sessions, workers[w].driver)
    /\ \E success \in BOOLEAN :
         LET v == workers[w].task
             failed == after_failure(workers[w], futures[v], "failed")
         IN IF success
            THEN /\ workers' = [workers EXCEPT ![w] = IdleWorker]
                 /\ futures' = [futures EXCEPT ![v].state = "done",
                                               ![v].success = TRUE,
                                               ![v].last = "ok"]
            ELSE /\ workers' = [workers EXCEPT ![w] = failed.worker]
                 /\ futures' = [futures EXCEPT ![v] = failed.future]
    /\ UNCHANGED <<pc, argVars, cache_file, pool_from, pauses, handed,
                   time_input, time_spec, drawn, max_sessions, queue, pmVars,
                   watchVars, poolVars, fetchVars, video_urls, use_proxy,
                   current_proxy, driver, stats, saved, cycle_count, i,
                   cycle_list, cycle_proxy, cycle_seen, last_attempt,
                   driver_failed, interrupted, summaries, mode>>

InitPar ==
    /\ cycles = 1 /\ max_videos \in {0, 1} /\ shuffle = FALSE
    /\ video_urls = [k \in 1..NumVideos |-> k]
    /\ valid \in {v \in SUBSET Urls : 1 \in v}
    /\ use_proxy = FALSE
    /\ current_proxy = None /\ driver = 0 /\ sessions = <<>>
    /\ stats = ParStats /\ saved = [written |-> FALSE, stats |-> ParStats]
    /\ cycle_count = 0 /\ i = 0 /\ cycle_list = <<>> /\ mode = "single"
    /\ cycle_proxy = None /\ cycle_seen = <<>> /\ last_attempt = NoAttempt
    /\ driver_failed = FALSE /\ interrupted = FALSE /\ summaries = 0
    /\ InitNoPool /\ InitNoManager /\ InitNoFetch /\ InitNoWatch
    /\ cache_file = NoCacheFile /\ pool_from = "none"
    /\ pauses = 0 /\ handed = 0
    /\ time_input = <<>> /\ drawn = 0
    /\ time_spec \in ParTimeSpecs
    /\ max_sessions \in 1..MaxSessions
    /\ workers = <<>> /\ queue = <<>> /\ futures = <<>>
    /\ pc = "par_start"

NextPar ==
    \/ par_begin
    \/ par_submit
    \/ par_submitted
    \/ par_result
    \/ par_finish
    \/ \E w \in DOMAIN workers : wk_take(w)
    \/ \E w \in DOMAIN workers : wk_get_session(w)
    \/ \E w \in DOMAIN workers : wk_attempt_end(w)

SpecPar == InitPar /\ [][NextPar]_vars

\* One VideoViewer at work: a run with a single link.
InitOneViewer ==
    /\ cycles = 1 /\ max_videos = 0 /\ shuffle = FALSE
    /\ video_urls = <<1>>
    /\ valid \in SUBSET {1}
    /\ use_proxy = FALSE
    /\ current_proxy = None /\ driver = 0 /\ sessions = <<>>
    /\ stats = ParStats /\ saved = [written |-> FALSE, stats |-> ParStats]
    /\ cycle_count = 0 /\ i = 0 /\ cycle_list = <<>> /\ mode = "single"
    /\ cycle_proxy = None /\ cycle_seen = <<>> /\ last_attempt = NoAttempt
    /\ driver_failed = FALSE /\ interrupted = FALSE /\ summaries = 0
    /\ InitNoPool /\ InitNoManager /\ InitNoFetch /\ InitNoWatch
    /\ cache_file = NoCacheFile /\ pool_from = "none"
    /\ pauses = 0 /\ handed = 0
    /\ time_input = <<>> /\ drawn = 0
    /\ time_spec \in ParTimeSpecs
    /\ max_sessions \in 1..MaxSessions
    /\ workers = <<>> /\ queue = <<>> /\ futures = <<>>
    /\ pc = "par_start"

SpecOneViewer == InitOneViewer /\ [][NextPar]_vars

\* The sessions a viewer was given for the video at position v.
SessionsOf(v) ==
    {k \in DOMAIN sessions : sessions[k].video = v /\ sessions[k].held}

\* C25: never more browser sessions alive than --max-sessions allows.
C25_AliveWithinMaxSessions ==
    Cardinality(Alive(sessions)) <= max_sessions

\* C29: for every successful video the watch time in its history entry is
\* the duration that watch_video drew and used for it, and total_watch_time
\* is the sum of these durations.
C29_RecordedTimeIsUsedTime ==
    \A k \in DOMAIN stats.history :
        stats.history[k].success =>
            \E v \in DOMAIN futures :
                /\ cycle_list[v] = stats.history[k].url
                /\ stats.history[k].watch_time = futures[v].watch_time

\* C30: watch_video makes at most MaxRetries + 1 attempts; it returns True
\* right after the first attempt that succeeds and False after the last of
\* MaxRetries + 1 failed attempts, an attempt without a session counting as
\* failed; when an attempt begins, and when watch_video has returned, every
\* session the viewer was given for the video is closed.
C30_WatchVideoBoundedAndClean ==
    /\ \A v \in DOMAIN futures :
          /\ futures[v].attempts <= MaxRetries + 1
          /\ futures[v].state = "running" => futures[v].last # "ok"
          /\ futures[v].state = "done" =>
                /\ futures[v].success <=> futures[v].last = "ok"
                /\ ~futures[v].success => futures[v].attempts = MaxRetries + 1
                /\ futures[v].attempts >= 1
                /\ \A k \in SessionsOf(v) : sessions[k].quits = 1
          /\ Cardinality(SessionsOf(v) \cap Alive(sessions)) <= 1
    /\ \A w \in DOMAIN workers :
          /\ workers[w].phase \in {"get", "idle"} => workers[w].driver = 0
          /\ workers[w].phase = "get" =>
                /\ workers[w].retry_count = futures[workers[w].task].attempts
                /\ \A k \in SessionsOf(workers[w].task) :
                      sessions[k].quits = 1
          /\ workers[w].phase = "watching" =>
                /\ workers[w].driver \in SessionsOf(workers[w].task)
                /\ sessions[workers[w].driver].quits = 0

\* watch_video has returned False after three attempts, the second of them
\* with a session.
C30_Witness ==
    /\ futures # <<>>
    /\ futures[1].state = "done" /\ ~futures[1].success
    /\ futures[1].attempts = MaxRetries + 1
    /\ Cardinality(SessionsOf(1)) = 1
    /\ futures[1].last = "no_session"

\* ------------------------------------------------ properties, rutube_pro.py
\* C1: a failed attempt on a video, made while proxy P is the session's
\* proxy, leaves P outside the working list and inside the failed list,
\* whether or not it is the first video watched through P.
C1_FailedAttemptEvictsProxy ==
    (last_attempt.proxy # None /\ ~last_attempt.success) =>
        /\ ~InList(last_attempt.proxy, working_proxies)
        /\ InList(last_attempt.proxy, failed_proxies)

\* C2: in a run that is not interrupted and whose browser sessions all
\* start, every cycle that ends has gone through the whole (capped) list,
\* each URL once, whatever the state of the proxy pool.
C2_EveryCycleProcessesList ==
    (pc = "cycle_check" /\ ~driver_failed /\ ~interrupted) => WholeListSeen

\* C4: a cycle of proxy mode in which the pool had no proxy to give still
\* goes through the cycle's videos.
C4_EmptyPoolStillProcesses ==
    (pc = "cycle_check" /\ use_proxy /\ cycle_proxy = None) =>
        cycle_seen # <<>>

\* C5: no browser session is ever closed twice, and when the run has ended
\* every session that was created has been closed.
C5_SessionsClosedExactlyOnce ==
    /\ \A k \in 1..Len(sessions) : sessions[k].quits <= 1
    /\ pc = "exit" => \A k \in 1..Len(sessions) : sessions[k].quits = 1

\* C6: once a browser session could not be created, no further cycle
\* starts and no further video is reached.
C6_DriverFailureEndsRun ==
    [][driver_failed =>
          /\ cycle_count' = cycle_count
          /\ cycle_seen' = cycle_seen]_vars

\* C11: when every proxy source answers with an error, fetch_proxies hands
\* back an empty candidate list, validation leaves an empty working list,
\* and the controller goes on without a proxy and still goes through the
\* videos of the cycles it ends.
C11_AllSourcesDownRunsProxyless ==
    (all_down /\ pc \notin {"start", "init_proxies"}) =>
        /\ fetch_result = "returned"
        /\ proxies = <<>>
        /\ working_proxies = <<>>
        /\ ~use_proxy
        /\ (pc = "cycle_check" /\ ~driver_failed /\ ~interrupted)
               => WholeListSeen

\* C12: after a video attempt has failed, the run is not cut short: every
\* cycle that ends afterwards (not interrupted, browser sessions starting)
\* has gone through the whole list.
C12_FailedVideoDoesNotCutRun ==
    (/\ last_attempt.url # 0 /\ ~last_attempt.success
     /\ stats.failed_views >= 1
     /\ pc = "cycle_check" /\ ~driver_failed /\ ~interrupted)
        => WholeListSeen

\* ------------------------------------------------ properties, ProxyManager
\* C13: on every pool a viewer can hold, evicting an address twice in a
\* row leaves the same pool (lists and counters) as evicting it once, and
\* evicting an address that is not in the working list changes nothing.
C13_EvictIsIdempotent ==
    (Published /\ mode # "manage") =>
        \A x \in Proxies :
            /\ pm_evict(pm_evict(ThePool, x), x) = pm_evict(ThePool, x)
            /\ ~InList(x, working_proxies) => pm_evict(ThePool, x) = ThePool

\* The number of times an address occurs in a list.
Occurrences(s, x) == Cardinality({k \in DOMAIN s : s[k] = x})

\* C14: after evict(x) on a pool whose working list holds x, x is out of
\* the working list and recorded in the failed list, and every other
\* address is where it was, in both lists.
C14_EvictFrame ==
    (last_op.op = "evict" /\ InList(last_op.arg, last_op.before.working)) =>
        /\ ~InList(last_op.arg, working_proxies)
        /\ InList(last_op.arg, failed_proxies)
        /\ \A y \in Proxies \ {last_op.arg} :
              /\ Occurrences(working_proxies, y)
                    = Occurrences(last_op.before.working, y)
              /\ Occurrences(failed_proxies, y)
                    = Occurrences(last_op.before.failed, y)

\* C16: the candidate list validate_proxies works on holds no address
\* twice, whether it came from the remote sources or from a local file.
C16_CandidatesHaveNoDuplicates ==
    (pc \in {"cands", "gather", "publish2", "ready"}) =>
        \A a, b \in DOMAIN proxies : proxies[a] = proxies[b] => a = b

\* C15: a selection on an empty working list returns None, a selection on
\* a non-empty one returns an address of that list, a selection always has
\* an outcome, and the pool is as it was before the selection.
C15_SelectOnPool ==
    /\ (Published /\ mode # "manage") =>
           get_random_proxy(working_proxies) # {}
    /\ last_op.op = "select" =>
           /\ last_op.before.working = <<>> => last_op.result = None
           /\ last_op.before.working # <<>> =>
                  InList(last_op.result, last_op.before.working)
           /\ ThePool = last_op.before

C15_Witness ==
    /\ last_op.op = "select"
    /\ pc = "ready" /\ proxies # <<>>
    /\ last_op.before.working = <<>>
    /\ last_op.result = None

\* C17: the candidate list fetch_proxies leaves behind is never longer
\* than max_proxies as it stands when the fetch runs, also when the
\* attribute was assigned after the manager's construction.
C17_CandidatesWithinMax ==
    pc = "fetched" => Len(proxies) <= max_proxies

C17_Witness ==
    /\ pc = "fetched" /\ fetch_result = "returned"
    /\ last_op.op = "set_max"
    /\ Cardinality(Offered) > max_proxies
    /\ Len(proxies) = max_proxies

\* C18: once validate_proxies has published, every address of the working
\* list is a candidate whose probe returned a result, at publication and
\* after any later eviction; a pool taken from proxy_results.json holds
\* only addresses of that file's working list.
C18_WorkingWasValidated ==
    /\ pc \in {"publish2", "ready"} =>
          \A k \in DOMAIN working_proxies :
             \E j \in DOMAIN proxies :
                /\ proxies[j] = working_proxies[k]
                /\ probes[j] = "done" /\ probe_results[j] # 0
    /\ pc = "ready_cached" =>
          /\ cache.written
          /\ \A k \in DOMAIN working_proxies :
                InList(working_proxies[k], cache.pool.working)

C18_Witness ==
    /\ pc = "ready"
    /\ Len(proxies) = 2 /\ Len(working_proxies) = 1
    /\ \E j \in DOMAIN proxies :
          probe_results[j] = 0 /\ ~InList(proxies[j], working_proxies)

\* C19: during a validation pass no more than max_workers probes are in
\* flight, and when the pass publishes every candidate has been probed
\* exactly once.
C19_ProbesBoundedAndComplete ==
    /\ Flying <= max_workers
    /\ pc \in {"publish2", "ready"} =>
          /\ DOMAIN probes = DOMAIN proxies
          /\ \A k \in DOMAIN proxies : probes[k] = "done" /\ probed[k] = 1

C19_Witness ==
    /\ pc = "gather"
    /\ Flying = max_workers
    /\ \E k \in DOMAIN probes : probes[k] = "waiting"

\* C20: an operation that changes the working or the failed list holds
\* the pool's lock, and an address evicted since the validation pass began
\* is not in the working list again.
C20_PoolChangesUnderLock ==
    /\ (\/ working_proxies # last_op.before.working
        \/ failed_proxies # last_op.before.failed) => last_op.locked
    /\ \A x \in evicted : ~InList(x, working_proxies)

\* C27: in rutube_pro.py's manager, once validate_proxies has returned and
\* after any evictions that follow, the working and the failed list are
\* disjoint, hold no address twice, together hold exactly the candidates,
\* and the two counters are the lengths of the two lists. (Evictions that
\* overlapped the pass and were undone by it are left aside.)
C27_PoolListsPartitionCandidates ==
    (/\ pc = "ready" /\ mode \in {"manage", "pro"}
     /\ \A x \in evicted : ~InList(x, working_proxies)) =>
        /\ \A x \in Proxies :
              /\ Occurrences(working_proxies, x) <= 1
              /\ Occurrences(failed_proxies, x) <= 1
              /\ ~(InList(x, working_proxies) /\ InList(x, failed_proxies))
              /\ InList(x, proxies) <=>
                    (InList(x, working_proxies) \/ InList(x, failed_proxies))
        /\ pm_stats.working_count = Len(working_proxies)
        /\ pm_stats.failed_count = Len(failed_proxies)

\* ------------------------------------- properties, rutube_viewer_proxy1.py
\* C26: a WatchSession is never driven through a proxy that has been
\* evicted from the working list and not been put back by a validation
\* pass: the proxy of the session a video is watched in is in the list.
C26_NoSessionThroughEvictedProxy ==
    (pc = "p_watching" /\ sessions[driver].proxy # None) =>
        InList(sessions[driver].proxy, working_proxies)

====
